---- MODULE Spec2Model ----
(***************************************************************************)
(* A model of the segmentation code of go.rtnl.ai/nlp: the Sonority        *)
(* Sequencing Principle syllable tokenizer (tokenize/sonority.go) and the  *)
(* sentence segmenter (tokenize/sentence.go).                              *)
(*                                                                         *)
(* A Go string is modelled as the sequence of its code points, each code   *)
(* point written as a one-character string; []rune(word) and string(runes) *)
(* convert between the two views of a valid UTF-8 string and keep the code *)
(* points as they are.  Where the code works on byte offsets (len,         *)
(* strings.LastIndexAny) the model computes the UTF-8 byte offsets.        *)
(* A Go slice index i is 0-based: At(s, i) reads it.                       *)
(***************************************************************************)
EXTENDS Integers, Sequences, FiniteSets, TLC

\* Longest word, in code points, of the exhaustive part of the syllable inputs.
MaxWordLen == 5

\* Most pieces (see Pieces) in a text of the exhaustive part of the segmenter inputs.
MaxPieces == 5

\* The most calls of Tokenize under way at once on one instance.
MaxCallers == 2

\* The longest word of the exhaustive words of the stemmer.
MaxStemLen == 4

\* The pieces a text is built from.
MaxTextPieces == 3

\* language.Language, a uint16 enumeration.
Unknown == 0
English == 1

(***************************************************************************)
(* Sequences and code points                                               *)
(***************************************************************************)
Range(s) == {s[j] : j \in 1..Len(s)}

At(s, idx) == s[idx + 1]

SeqsUpTo(S, n) == UNION {[1..m -> S] : m \in 0..n}

RECURSIVE Concat(_)
Concat(ss) == IF ss = <<>> THEN <<>> ELSE Head(ss) \o Concat(Tail(ss))

LowerLetters ==
    <<"a", "b", "c", "d", "e", "f", "g", "h", "i", "j", "k", "l", "m",
      "n", "o", "p", "q", "r", "s", "t", "u", "v", "w", "x", "y", "z">>

UpperLetters ==
    <<"A", "B", "C", "D", "E", "F", "G", "H", "I", "J", "K", "L", "M",
      "N", "O", "P", "Q", "R", "S", "T", "U", "V", "W", "X", "Y", "Z">>

IndexOf(s, r) == CHOOSE j \in 1..Len(s) : s[j] = r

\* unicode.ToLower and unicode.ToUpper, on the code points of the model.
ToLower(r) ==
    IF r \in Range(UpperLetters) THEN LowerLetters[IndexOf(UpperLetters, r)] ELSE r

ToUpper(r) ==
    IF r \in Range(LowerLetters) THEN UpperLetters[IndexOf(LowerLetters, r)] ELSE r

\* strings.ToLower and strings.ToUpper.
StringToLower(s) == [j \in 1..Len(s) |-> ToLower(s[j])]

StringToUpper(s) == [j \in 1..Len(s) |-> ToUpper(s[j])]

\* unicode.IsPunct: category P.  "$" and "%" show the split: "%" is
\* punctuation (Po), "$" is a currency symbol (Sc).
IsPunct(r) == r \in {"-", ".", "!", "?", ",", "'", "%"}

\* unicode.IsNumber.
IsNumber(r) == r \in {"0", "1", "2", "3", "4", "5", "6", "7", "8", "9"}

\* unicode.IsSpace.
IsSpace(r) == r \in {" ", "\t", "\n", "\r"}

\* strings.ContainsAny(s, chars).
ContainsAny(s, chars) == \E j \in 1..Len(s) : s[j] \in Range(chars)

(***************************************************************************)
(* SSPSyllableTokenizer                                                    *)
(***************************************************************************)
\* mapRuneScores with the runes as they are written in the hierarchy only.
mapRuneScoresAsWritten(hierarchy) ==
    LET cases(s) == {hierarchy[s][j] : j \in 1..Len(hierarchy[s])}
    IN  [r \in UNION {cases(s) : s \in DOMAIN hierarchy} |->
            CHOOSE s \in DOMAIN hierarchy : r \in cases(s)]

\* The map of runes to their hierarchy score: both cases of every rune.
mapRuneScores(hierarchy) ==
    LET cases(s) == UNION {{ToLower(hierarchy[s][j]), ToUpper(hierarchy[s][j])} :
                             j \in 1..Len(hierarchy[s])}
    IN  [r \in UNION {cases(s) : s \in DOMAIN hierarchy} |->
            CHOOSE s \in DOMAIN hierarchy : r \in cases(s)]

EnglishHierarchy ==
    [s \in 0..3 |->
        CASE s = 3 -> <<"a", "e", "i", "o", "u", "y">>
          [] s = 2 -> <<"l", "m", "n", "r", "w">>
          [] s = 1 -> <<"z", "v", "s", "f">>
          [] s = 0 -> <<"b", "c", "d", "g", "t", "k", "p", "q", "x", "h", "j">>]

\* A nil pointer, and the test for it.
Nil == [nil |-> TRUE]

IsNil(p) == "nil" \in DOMAIN p

\* The rune score map of the English tokenizer.
EnglishRuneScoreMap == mapRuneScores(EnglishHierarchy)

\* NewSSPSyllableTokenizer taking Unknown for English, as the segmenter does.
NewSSPSyllableTokenizerUnknownIsEnglish(lang) ==
    IF lang \in {Unknown, English}
    THEN [tokenizer |-> [lang |-> English,
                         runeScoreMap |-> EnglishRuneScoreMap,
                         vowels |-> <<"a", "e", "i", "o", "u", "y">>],
          err |-> "nil"]
    ELSE [tokenizer |-> Nil, err |-> "ErrLanguageNotSupported"]

\* NewSSPSyllableTokenizer: a tokenizer for English, an error for the rest.
NewSSPSyllableTokenizer(lang) ==
    IF lang = English
    THEN [tokenizer |-> [lang |-> lang,
                         runeScoreMap |-> EnglishRuneScoreMap,
                         vowels |-> <<"a", "e", "i", "o", "u", "y">>],
          err |-> "nil"]
    ELSE [tokenizer |-> Nil, err |-> "ErrLanguageNotSupported"]

\* t.runeScoreMap[r]: a missing key reads as the zero value.
runeScore(t, r) == IF r \in DOMAIN t.runeScoreMap THEN t.runeScoreMap[r] ELSE 0

\* isShortWord with the bound off by one: only words of one character or less.
isShortWordOffByOne(runeToken) == Len(runeToken) <= 1

\* isShortWord without the early return.
isShortWordNever(runeToken) == FALSE

\* The early return of Tokenize: words of two characters or less.
isShortWord(runeToken) == Len(runeToken) <= 2

\* The focus rune is a syllable of its own: punctuation, numbers, whitespace.
isOwnSyllable(focusRune) ==
    IsPunct(focusRune) \/ IsNumber(focusRune) \/ IsSpace(focusRune)

\* The syllable breaks after the focus rune.
breaksAfter(prevScore, focusScore, nextScore) ==
    prevScore >= focusScore /\ focusScore = nextScore

\* breaksBefore without the rise to the next rune.
breaksBeforeFallOnly(prevScore, focusScore, nextScore) ==
    prevScore > focusScore

\* The syllable breaks before the focus rune.
breaksBefore(prevScore, focusScore, nextScore) ==
    prevScore > focusScore /\ focusScore < nextScore

\* One iteration of the trigram loop of Tokenize, at index idx.
scanStep(t, runeToken, idx, syl, syls) ==
    LET focusRune == At(runeToken, idx)
        prevScore == runeScore(t, At(runeToken, idx - 1))
        focusScore == runeScore(t, focusRune)
        nextScore == runeScore(t, At(runeToken, idx + 1))
    IN  IF isOwnSyllable(focusRune)
        THEN [syllable |-> <<>>,
              syllables |-> Append(Append(syls, syl), <<focusRune>>)]
        ELSE IF breaksAfter(prevScore, focusScore, nextScore)
        THEN [syllable |-> <<>>,
              syllables |-> Append(syls, Append(syl, focusRune))]
        ELSE IF breaksBefore(prevScore, focusScore, nextScore)
        THEN [syllable |-> <<focusRune>>,
              syllables |-> Append(syls, syl)]
        ELSE [syllable |-> Append(syl, focusRune),
              syllables |-> syls]

\* The last rune and syllable, after the loop.
appendLast(runeToken, syl, syls) ==
    LET lastRune == At(runeToken, Len(runeToken) - 1)
    IN  IF IsPunct(lastRune)
        THEN Append(Append(syls, syl), <<lastRune>>)
        ELSE Append(syls, Append(syl, lastRune))

\* The syllable has a vowel, in upper or lower case.
hasVowel(t, syl) ==
    ContainsAny(syl, StringToLower(t.vowels) \o StringToUpper(t.vowels))

\* A "syllable" validateSyllables ignores: one rune of punctuation or whitespace.
isIgnoredSyllable(syl) ==
    Len(syl) = 1 /\ (IsPunct(syl[1]) \/ IsSpace(syl[1]))

\* validateStep merging the other way: a current syllable without a vowel is
\* put in front of the next syllable that has one.
validateStepMergeNext(t, syl, current, validated) ==
    IF syl = <<>>
    THEN [currentSyllable |-> current, validatedSyllables |-> validated]
    ELSE IF isIgnoredSyllable(syl)
    THEN IF current # <<>>
         THEN [currentSyllable |-> <<>>,
               validatedSyllables |-> Append(validated, current)]
         ELSE [currentSyllable |-> current, validatedSyllables |-> validated]
    ELSE IF current = <<>>
    THEN [currentSyllable |-> syl, validatedSyllables |-> validated]
    ELSE IF hasVowel(t, syl) /\ hasVowel(t, current)
    THEN [currentSyllable |-> syl,
          validatedSyllables |-> Append(validated, current)]
    ELSE [currentSyllable |-> current \o syl, validatedSyllables |-> validated]

\* validateStep without the merge: every syllable closes the one before it.
validateStepNoMerge(t, syl, current, validated) ==
    IF syl = <<>>
    THEN [currentSyllable |-> current, validatedSyllables |-> validated]
    ELSE IF isIgnoredSyllable(syl)
    THEN IF current # <<>>
         THEN [currentSyllable |-> <<>>,
               validatedSyllables |-> Append(validated, current)]
         ELSE [currentSyllable |-> current, validatedSyllables |-> validated]
    ELSE IF current = <<>>
    THEN [currentSyllable |-> syl, validatedSyllables |-> validated]
    ELSE [currentSyllable |-> syl,
          validatedSyllables |-> Append(validated, current)]

\* validateStep without the flush: a punctuation or whitespace unit is only
\* skipped.
validateStepNoFlush(t, syl, current, validated) ==
    IF syl = <<>> \/ isIgnoredSyllable(syl)
    THEN [currentSyllable |-> current, validatedSyllables |-> validated]
    ELSE IF current = <<>>
    THEN [currentSyllable |-> syl, validatedSyllables |-> validated]
    ELSE IF hasVowel(t, syl)
    THEN [currentSyllable |-> syl,
          validatedSyllables |-> Append(validated, current)]
    ELSE [currentSyllable |-> current \o syl, validatedSyllables |-> validated]

\* One iteration of the loop of validateSyllables, on the syllable syl.
validateStep(t, syl, current, validated) ==
    IF syl = <<>>
    THEN [currentSyllable |-> current, validatedSyllables |-> validated]
    ELSE IF isIgnoredSyllable(syl)
    THEN IF current # <<>>
         THEN [currentSyllable |-> <<>>,
               validatedSyllables |-> Append(validated, current)]
         ELSE [currentSyllable |-> current, validatedSyllables |-> validated]
    ELSE IF current = <<>>
    THEN [currentSyllable |-> syl, validatedSyllables |-> validated]
    ELSE IF hasVowel(t, syl)
    THEN [currentSyllable |-> syl,
          validatedSyllables |-> Append(validated, current)]
    ELSE [currentSyllable |-> current \o syl, validatedSyllables |-> validated]

\* The last syllable of validateSyllables, if there is one.
validateLast(current, validated) ==
    IF current # <<>> THEN Append(validated, current) ELSE validated

\* The locals of a call of SSPSyllableTokenizer.Tokenize at its entry.
NewSSPCall(token) ==
    [word |-> token, i |-> 0, syllable |-> <<>>, syllables |-> <<>>, vi |-> 0,
     currentSyllable |-> <<>>, validatedSyllables |-> <<>>, result |-> <<>>,
     pc |-> "call"]

\* sspFieldsAfter with a cache: the scan stores the score it has looked up for
\* the focus rune in the rune score map.
sspFieldsAfterScoreCached(t, c) ==
    IF c.pc = "scan" /\ c.i <= Len(c.word) - 2
    THEN [t EXCEPT !.runeScoreMap =
             [r \in DOMAIN t.runeScoreMap \cup {At(c.word, c.i)} |-> runeScore(t, r)]]
    ELSE t

\* The fields of the tokenizer after a step of a call: Tokenize and
\* validateSyllables assign to none of them.
sspFieldsAfter(t, c) == t

\* One step of a call of Tokenize on the tokenizer t: the locals after it.
sspStep(t, c) ==
    CASE c.pc = "call" ->
           IF isShortWord(c.word)
           THEN [c EXCEPT !.result = <<c.word>>, !.pc = "done"]
           ELSE [c EXCEPT !.syllable = <<At(c.word, 0)>>, !.i = 1, !.pc = "scan"]
      [] c.pc = "scan" ->
           IF c.i <= Len(c.word) - 2
           THEN LET r == scanStep(t, c.word, c.i, c.syllable, c.syllables)
                IN  [c EXCEPT !.syllable = r.syllable,
                              !.syllables = r.syllables,
                              !.i = c.i + 1]
           ELSE [c EXCEPT !.syllables = appendLast(c.word, c.syllable, c.syllables),
                          !.pc = "validate"]
      [] c.pc = "validate" ->
           IF Len(c.syllables) <= 1
           THEN [c EXCEPT !.result = c.syllables, !.pc = "done"]
           ELSE IF c.vi < Len(c.syllables)
           THEN LET r == validateStep(t, At(c.syllables, c.vi), c.currentSyllable,
                                      c.validatedSyllables)
                IN  [c EXCEPT !.currentSyllable = r.currentSyllable,
                              !.validatedSyllables = r.validatedSyllables,
                              !.vi = c.vi + 1]
           ELSE LET v == validateLast(c.currentSyllable, c.validatedSyllables)
                IN  [c EXCEPT !.validatedSyllables = v, !.result = v, !.pc = "done"]
      [] OTHER -> c

\* A call of Tokenize run from a state of its locals to its return.
RECURSIVE runSSP(_, _)
runSSP(t, c) == IF c.pc = "done" THEN c.result ELSE runSSP(t, sspStep(t, c))

\* SSPSyllableTokenizer.Tokenize(token): the syllables returned.
SSPTokenize(t, token) == runSSP(t, NewSSPCall(token))

(***************************************************************************)
(* SentenceSegmenter                                                       *)
(***************************************************************************)
\* The UTF-8 length of a code point, and len(s) of a string: its bytes.
Utf8Len(r) == IF r = "U+00E9" THEN 2 ELSE 1

RECURSIVE ByteLen(_)
ByteLen(s) == IF s = <<>> THEN 0 ELSE Utf8Len(Head(s)) + ByteLen(Tail(s))

\* strings.LastIndexAny(s, chars): the byte index of the last code point of s
\* that is in chars, or -1.
LastIndexAny(s, chars) ==
    LET hits == {j \in 1..Len(s) : s[j] \in Range(chars)}
    IN  IF hits = {} THEN -1
        ELSE ByteLen(SubSeq(s, 1, (CHOOSE j \in hits : \A h \in hits : h <= j) - 1))

\* strings.Count(s, substr) for a substr of one code point.
Count(s, r) == Cardinality({j \in 1..Len(s) : s[j] = r})

\* slices.Contains.
Contains(list, v) == \E j \in 1..Len(list) : list[j] = v

\* strings.Fields: the words around each run of white space.
RECURSIVE fieldsFrom(_, _, _)
fieldsFrom(rest, field, fields) ==
    LET closed == IF field # <<>> THEN Append(fields, field) ELSE fields
    IN  IF rest = <<>> THEN closed
        ELSE IF IsSpace(Head(rest)) THEN fieldsFrom(Tail(rest), <<>>, closed)
        ELSE fieldsFrom(Tail(rest), Append(field, Head(rest)), fields)

\* WhitespaceTokenizer.Tokenize.
WhitespaceTokenize(chunk) == fieldsFrom(chunk, <<>>, <<>>)

\* Punctuation marks which end an English sentence.
SENTENCE_PUNCTUATION_ENGLISH == <<".", "!", "?">>

\* Words that look like they end a sentence but usually do not.
SENTENCE_STOP_WORDS_ENGLISH ==
    << <<"M", "r", ".">>, <<"M", "r", "s", ".">>, <<"M", "s", ".">>,
       <<"D", "r", ".">>, <<"H", "o", "n", ".">> >>

\* NewSentenceSegmenter with the language option lang (Unknown: no option).
NewSentenceSegmenter(lang) ==
    LET l == IF lang = Unknown THEN English ELSE lang
    IN  [lang |-> l,
         punctuation |-> IF l = English THEN SENTENCE_PUNCTUATION_ENGLISH ELSE <<>>,
         stopWords |-> IF l = English THEN SENTENCE_STOP_WORDS_ENGLISH ELSE <<>>]

\* endsSentence without the test for more than one period.
endsSentenceNoInitialism(token, punctuation, stopWords) ==
    IF token = <<>> THEN FALSE
    ELSE LET endsInPunct == LastIndexAny(token, punctuation) = ByteLen(token) - 1
             isStopWord == Contains(stopWords, token)
         IN  endsInPunct /\ ~isStopWord

\* The token ends in sentence punctuation and is not an abbreviation or
\* initialism or in the set of stop words.
endsSentence(token, punctuation, stopWords) ==
    IF token = <<>> THEN FALSE
    ELSE LET endsInPunct == LastIndexAny(token, punctuation) = ByteLen(token) - 1
             isStopWord == Contains(stopWords, token)
             isInitialism == 1 < Count(token, ".")
         IN  endsInPunct /\ ~(isStopWord \/ isInitialism)

\* segmentStep that never starts the sentence anew after a word that ends one.
segmentStepNoRestart(s, w, sent, prev, sents) ==
    LET started == IF prev = <<>> THEN w ELSE sent \o <<" ">> \o w
    IN  [sentence |-> started,
         prevWord |-> w,
         sentences |-> IF endsSentence(w, s.punctuation, s.stopWords)
                       THEN Append(sents, started)
                       ELSE sents]

\* One iteration of the loop of SentenceSegmenter.Tokenize, on the word w.
segmentStep(s, w, sent, prev, sents) ==
    LET started == IF prev = <<>> \/ endsSentence(prev, s.punctuation, s.stopWords)
                   THEN w
                   ELSE sent \o <<" ">> \o w
    IN  [sentence |-> started,
         prevWord |-> w,
         sentences |-> IF endsSentence(w, s.punctuation, s.stopWords)
                       THEN Append(sents, started)
                       ELSE sents]

\* segmentLast without the append of the sentence left over.
segmentLastDropped(sent, sents) == sents

\* The last sentence, after the loop.
segmentLast(sent, sents) == IF sent # <<>> THEN Append(sents, sent) ELSE sents

\* The locals of a call of SentenceSegmenter.Tokenize at its entry.
NewSegCall(text) ==
    [chunk |-> text, words |-> <<>>, k |-> 0, sentence |-> <<>>,
     prevWord |-> <<>>, sentences |-> <<>>, result |-> <<>>, pc |-> "call"]

\* The fields of the segmenter after a step of a call: Tokenize and
\* endsSentence assign to none of them.
segFieldsAfter(s, c) == s

\* One step of a call of Tokenize on the segmenter s: the locals after it.
segStep(s, c) ==
    CASE c.pc = "call" ->
           [c EXCEPT !.words = WhitespaceTokenize(c.chunk), !.pc = "loop"]
      [] c.pc = "loop" ->
           IF c.k < Len(c.words)
           THEN LET r == segmentStep(s, At(c.words, c.k), c.sentence, c.prevWord,
                                     c.sentences)
                IN  [c EXCEPT !.sentence = r.sentence,
                              !.prevWord = r.prevWord,
                              !.sentences = r.sentences,
                              !.k = c.k + 1]
           ELSE LET v == segmentLast(c.sentence, c.sentences)
                IN  [c EXCEPT !.sentences = v, !.result = v, !.pc = "done"]
      [] OTHER -> c

\* A call of Tokenize run from a state of its locals to its return.
RECURSIVE runSeg(_, _)
runSeg(s, c) == IF c.pc = "done" THEN c.result ELSE runSeg(s, segStep(s, c))

\* SentenceSegmenter.Tokenize(chunk): the sentences returned.
SegTokenize(s, text) == runSeg(s, NewSegCall(text))

(***************************************************************************)
(* Porter2Stemmer                                                          *)
(***************************************************************************)
\* The irregular-stem exception table: whole words and their stems.
IrregularStems ==
    << << <<"g", "e", "n", "t", "l", "y">>, <<"g", "e", "n", "t", "l">> >>,
       << <<"s", "i", "n", "g", "l", "y">>, <<"s", "i", "n", "g", "l">> >>,
       << <<"c", "o", "s", "m", "o", "s">>, <<"c", "o", "s", "m", "o", "s">> >>,
       << <<"s", "k", "i", "e", "s">>, <<"s", "k", "y">> >>,
       << <<"d", "y", "i", "n", "g">>, <<"d", "i", "e">> >>,
       << <<"l", "y", "i", "n", "g">>, <<"l", "i", "e">> >>,
       << <<"t", "y", "i", "n", "g">>, <<"t", "i", "e">> >>,
       << <<"e", "a", "r", "l", "y">>, <<"e", "a", "r", "l", "i">> >>,
       << <<"a", "t", "l", "a", "s">>, <<"a", "t", "l", "a", "s">> >>,
       << <<"a", "n", "d", "e", "s">>, <<"a", "n", "d", "e", "s">> >>,
       << <<"s", "k", "i", "s">>, <<"s", "k", "i">> >>,
       << <<"i", "d", "l", "y">>, <<"i", "d", "l">> >>,
       << <<"u", "g", "l", "y">>, <<"u", "g", "l", "i">> >>,
       << <<"o", "n", "l", "y">>, <<"o", "n", "l", "i">> >>,
       << <<"n", "e", "w", "s">>, <<"n", "e", "w", "s">> >>,
       << <<"h", "o", "w", "e">>, <<"h", "o", "w", "e">> >>,
       << <<"b", "i", "a", "s">>, <<"b", "i", "a", "s">> >>,
       << <<"s", "k", "y">>, <<"s", "k", "y">> >> >>

\* Step 1: the trailing apostrophe forms and what is left of them.
ApostropheForms ==
    << << <<"'", "s", "'">>, <<>> >>,
       << <<"'", "s">>, <<>> >>,
       << <<"'">>, <<>> >> >>

\* Step 2: the prefixes with an R1 of their own, right after the prefix.
R1Prefixes ==
    << << <<"c", "o", "m", "m", "u", "n">>, <<"c", "o", "m", "m", "u", "n">> >>,
       << <<"g", "e", "n", "e", "r">>, <<"g", "e", "n", "e", "r">> >>,
       << <<"a", "r", "s", "e", "n">>, <<"a", "r", "s", "e", "n">> >> >>

\* Step 6: the long suffixes and their replacements, longest first.
LongSuffixes ==
    << << <<"a", "t", "i", "o", "n", "a", "l">>, <<"a", "t", "e">> >>,
       << <<"i", "z", "a", "t", "i", "o", "n">>, <<"i", "z", "e">> >>,
       << <<"f", "u", "l", "n", "e", "s", "s">>, <<"f", "u", "l">> >>,
       << <<"o", "u", "s", "n", "e", "s", "s">>, <<"o", "u", "s">> >>,
       << <<"i", "v", "e", "n", "e", "s", "s">>, <<"i", "v", "e">> >>,
       << <<"t", "i", "o", "n", "a", "l">>, <<"t", "i", "o", "n">> >>,
       << <<"b", "i", "l", "i", "t", "i">>, <<"b", "l", "e">> >>,
       << <<"l", "e", "s", "s", "l", "i">>, <<"l", "e", "s", "s">> >>,
       << <<"e", "n", "t", "l", "i">>, <<"e", "n", "t">> >>,
       << <<"a", "t", "i", "o", "n">>, <<"a", "t", "e">> >>,
       << <<"a", "l", "i", "s", "m">>, <<"a", "l">> >>,
       << <<"a", "l", "i", "t", "i">>, <<"a", "l">> >>,
       << <<"o", "u", "s", "l", "i">>, <<"o", "u", "s">> >>,
       << <<"i", "v", "i", "t", "i">>, <<"i", "v", "e">> >>,
       << <<"f", "u", "l", "l", "i">>, <<"f", "u", "l">> >>,
       << <<"e", "n", "c", "i">>, <<"e", "n", "c", "e">> >>,
       << <<"a", "n", "c", "i">>, <<"a", "n", "c", "e">> >>,
       << <<"a", "b", "l", "i">>, <<"a", "b", "l", "e">> >>,
       << <<"i", "z", "e", "r">>, <<"i", "z", "e">> >>,
       << <<"a", "t", "o", "r">>, <<"a", "t", "e">> >>,
       << <<"a", "l", "l", "i">>, <<"a", "l">> >>,
       << <<"b", "l", "i">>, <<"b", "l", "e">> >> >>

\* Step 7: the second set of suffixes and their replacements, longest first.
SecondarySuffixes ==
    << << <<"a", "t", "i", "o", "n", "a", "l">>, <<"a", "t", "e">> >>,
       << <<"t", "i", "o", "n", "a", "l">>, <<"t", "i", "o", "n">> >>,
       << <<"a", "l", "i", "z", "e">>, <<"a", "l">> >>,
       << <<"i", "c", "a", "t", "e">>, <<"i", "c">> >>,
       << <<"i", "c", "i", "t", "i">>, <<"i", "c">> >>,
       << <<"i", "c", "a", "l">>, <<"i", "c">> >>,
       << <<"n", "e", "s", "s">>, <<>> >>,
       << <<"f", "u", "l">>, <<>> >> >>

\* Step 8: the suffixes removed in R2, longest first.
RemovedSuffixes ==
    << << <<"e", "m", "e", "n", "t">>, <<>> >>,
       << <<"a", "n", "c", "e">>, <<>> >>,
       << <<"e", "n", "c", "e">>, <<>> >>,
       << <<"a", "b", "l", "e">>, <<>> >>,
       << <<"i", "b", "l", "e">>, <<>> >>,
       << <<"m", "e", "n", "t">>, <<>> >>,
       << <<"a", "n", "t">>, <<>> >>,
       << <<"e", "n", "t">>, <<>> >>,
       << <<"i", "s", "m">>, <<>> >>,
       << <<"a", "t", "e">>, <<>> >>,
       << <<"i", "t", "i">>, <<>> >>,
       << <<"o", "u", "s">>, <<>> >>,
       << <<"i", "v", "e">>, <<>> >>,
       << <<"i", "z", "e">>, <<>> >>,
       << <<"a", "l">>, <<>> >>,
       << <<"e", "r">>, <<>> >>,
       << <<"i", "c">>, <<>> >> >>

\* The word ends with the suffix; the word without its last n code points.
EndsWith(w, suffix) ==
    Len(suffix) <= Len(w) /\ SubSeq(w, Len(w) - Len(suffix) + 1, Len(w)) = suffix

StartsWith(w, prefix) == Len(prefix) <= Len(w) /\ SubSeq(w, 1, Len(prefix)) = prefix

DropLast(w, n) == SubSeq(w, 1, Len(w) - n)

\* The vowel category table of the stemmer.
StemVowels == {"a", "e", "i", "o", "u", "y"}

IsVowelAt(w, p) == p >= 1 /\ p <= Len(w) /\ w[p] \in StemVowels

ContainsVowel(w) == \E p \in 1..Len(w) : w[p] \in StemVowels

\* The rows of a table, longest suffix first, whose suffix ends the word.
Matches(table, w) == {j \in 1..Len(table) : EndsWith(w, table[j][1])}

\* The first such row: the longest match.
FirstMatch(table, w) == CHOOSE j \in Matches(table, w) : \A h \in Matches(table, w) : j <= h

\* The offset after the first non-vowel that follows a vowel, scanning from
\* the offset from; the length of the word if there is none.
RegionAfter(w, from) ==
    LET ends == {p \in (from + 2)..Len(w) : IsVowelAt(w, p - 1) /\ ~IsVowelAt(w, p)}
    IN  IF ends = {} THEN Len(w) ELSE CHOOSE p \in ends : \A h \in ends : p <= h

\* Step 2: R1, with the shorter R1 of the fixed prefixes, and R2.
R1Of(w) ==
    LET prefixes == {j \in 1..Len(R1Prefixes) : StartsWith(w, R1Prefixes[j][1])}
    IN  IF prefixes # {}
        THEN Len(R1Prefixes[CHOOSE j \in prefixes : TRUE][1])
        ELSE RegionAfter(w, 0)

R2Of(w, r1) == RegionAfter(w, r1)

\* The suffix of the word lies within the region that starts at offset r.
InRegion(w, suffix, r) == Len(w) - Len(suffix) >= r

\* The word ends in a short syllable; the word is short.
EndsShortSyllable(w) ==
    LET n == Len(w)
    IN  \/ /\ n >= 3
           /\ ~IsVowelAt(w, n - 2) /\ IsVowelAt(w, n - 1) /\ ~IsVowelAt(w, n)
           /\ w[n] \notin {"w", "x", "Y"}
        \/ n = 2 /\ IsVowelAt(w, 1) /\ ~IsVowelAt(w, 2)

IsShortStem(w, r1) == EndsShortSyllable(w) /\ r1 >= Len(w)

\* The irregular stem of the word, if the table has the word.
HasIrregularStem(w) == \E j \in 1..Len(IrregularStems) : IrregularStems[j][1] = w

IrregularStem(w) ==
    IrregularStems[CHOOSE j \in 1..Len(IrregularStems) : IrregularStems[j][1] = w][2]

\* The exception check without the table: no word is irregular.
exceptionStepNoTable(w) == [matched |-> FALSE, stem |-> w]

\* The exception check, before step 1.
exceptionStep(w) ==
    IF HasIrregularStem(w)
    THEN [matched |-> TRUE, stem |-> IrregularStem(w)]
    ELSE [matched |-> FALSE, stem |-> w]

\* apostropheStep that leaves a leading apostrophe in place.
apostropheStepTrailingOnly(w) ==
    IF Matches(ApostropheForms, w) = {} THEN w
    ELSE LET row == ApostropheForms[FirstMatch(ApostropheForms, w)]
         IN  DropLast(w, Len(row[1])) \o row[2]

\* Step 1, apostrophe normalization: a leading apostrophe is stripped, a
\* trailing apostrophe form is replaced as the table says.
apostropheStep(w) ==
    LET v == IF w # <<>> /\ w[1] = "'" THEN Tail(w) ELSE w
    IN  IF Matches(ApostropheForms, v) = {} THEN v
        ELSE LET row == ApostropheForms[FirstMatch(ApostropheForms, v)]
             IN  DropLast(v, Len(row[1])) \o row[2]

\* Step 3, plurals and verb forms: matched at the end of the word, no region.
pluralStep(w) ==
    IF EndsWith(w, <<"s", "s", "e", "s">>) THEN DropLast(w, 2)
    ELSE IF EndsWith(w, <<"i", "e", "d">>) \/ EndsWith(w, <<"i", "e", "s">>)
    THEN IF Len(w) > 4 THEN DropLast(w, 2) ELSE DropLast(w, 1)
    ELSE IF EndsWith(w, <<"u", "s">>) \/ EndsWith(w, <<"s", "s">>) THEN w
    ELSE IF EndsWith(w, <<"s">>) /\ ContainsVowel(DropLast(w, 2)) THEN DropLast(w, 1)
    ELSE w

\* The cleanup of step 4, after "ed", "edly", "ing" or "ingly" is removed.
pastTenseCleanup(w, r1) ==
    IF \/ EndsWith(w, <<"a", "t">>) \/ EndsWith(w, <<"b", "l">>)
       \/ EndsWith(w, <<"i", "z">>)
    THEN Append(w, "e")
    ELSE IF Len(w) >= 2 /\ w[Len(w)] = w[Len(w) - 1]
            /\ w[Len(w)] \in {"b", "d", "f", "g", "m", "n", "p", "r", "t"}
    THEN DropLast(w, 1)
    ELSE IF IsShortStem(w, r1) THEN Append(w, "e")
    ELSE w

PastTenseSuffixes ==
    << <<"i", "n", "g", "l", "y">>, <<"e", "d", "l", "y">>, <<"i", "n", "g">>,
       <<"e", "d">> >>

\* Step 4, past tense and -ing.
pastTenseStep(w, r1) ==
    IF EndsWith(w, <<"e", "e", "d", "l", "y">>)
    THEN IF InRegion(w, <<"e", "e", "d", "l", "y">>, r1) THEN DropLast(w, 3) ELSE w
    ELSE IF EndsWith(w, <<"e", "e", "d">>)
    THEN IF InRegion(w, <<"e", "e", "d">>, r1) THEN DropLast(w, 1) ELSE w
    ELSE LET hits == {j \in 1..Len(PastTenseSuffixes) : EndsWith(w, PastTenseSuffixes[j])}
         IN  IF hits = {} THEN w
             ELSE LET suffix == PastTenseSuffixes[CHOOSE j \in hits : \A h \in hits : j <= h]
                      rest == DropLast(w, Len(suffix))
                  IN  IF ContainsVowel(rest) THEN pastTenseCleanup(rest, r1) ELSE w

\* Step 5, y to i.
yToIStep(w) ==
    IF Len(w) > 2 /\ w[Len(w)] \in {"y", "Y"} /\ ~IsVowelAt(w, Len(w) - 1)
    THEN Append(DropLast(w, 1), "i")
    ELSE w

\* Steps 6 and 7: the longest suffix of the table is replaced if it lies in R1.
replaceInR1(table, w, r1) ==
    IF Matches(table, w) = {} THEN w
    ELSE LET row == table[FirstMatch(table, w)]
         IN  IF InRegion(w, row[1], r1) THEN DropLast(w, Len(row[1])) \o row[2] ELSE w

longSuffixStep(w, r1) == replaceInR1(LongSuffixes, w, r1)

secondarySuffixStep(w, r1) == replaceInR1(SecondarySuffixes, w, r1)

\* Step 8: the longest suffix of the table is removed if it lies in R2; "ion"
\* only after "s" or "t".
removalStep(w, r2) ==
    IF Matches(RemovedSuffixes, w) # {}
    THEN LET row == RemovedSuffixes[FirstMatch(RemovedSuffixes, w)]
         IN  IF InRegion(w, row[1], r2) THEN DropLast(w, Len(row[1])) ELSE w
    ELSE IF /\ EndsWith(w, <<"i", "o", "n">>)
            /\ InRegion(w, <<"i", "o", "n">>, r2)
            /\ Len(w) >= 4 /\ w[Len(w) - 3] \in {"s", "t"}
    THEN DropLast(w, 3)
    ELSE w

\* Step 9, final cleanup.
finalStep(w, r1, r2) ==
    IF EndsWith(w, <<"e">>)
    THEN IF \/ InRegion(w, <<"e">>, r2)
            \/ InRegion(w, <<"e">>, r1) /\ ~EndsShortSyllable(DropLast(w, 1))
         THEN DropLast(w, 1) ELSE w
    ELSE IF EndsWith(w, <<"l", "l">>) /\ InRegion(w, <<"l">>, r2) THEN DropLast(w, 1)
    ELSE w

\* The locals of a call of StemEnglish at its entry.
NewStemCall(w) ==
    [input |-> w, word |-> w, r1 |-> 0, r2 |-> 0, applied |-> {}, result |-> <<>>,
     pc |-> "exceptions"]

\* With the word v after step n: the step is recorded if it changed the word.
AfterStep(c, n, v, next) ==
    [c EXCEPT !.word = v,
              !.applied = IF v # c.word THEN c.applied \cup {n} ELSE c.applied,
              !.pc = next]

\* One step of StemEnglish: the exception check, then steps 1 to 9 in order.
stemStep(c) ==
    CASE c.pc = "exceptions" ->
           LET e == exceptionStep(c.word)
           IN  IF e.matched
               THEN [c EXCEPT !.result = e.stem, !.pc = "done"]
               ELSE [c EXCEPT !.pc = "step1"]
      [] c.pc = "step1" -> AfterStep(c, 1, apostropheStep(c.word), "step2")
      [] c.pc = "step2" ->
           [c EXCEPT !.r1 = R1Of(c.word), !.r2 = R2Of(c.word, R1Of(c.word)),
                     !.pc = "step3"]
      [] c.pc = "step3" -> AfterStep(c, 3, pluralStep(c.word), "step4")
      [] c.pc = "step4" -> AfterStep(c, 4, pastTenseStep(c.word, c.r1), "step5")
      [] c.pc = "step5" -> AfterStep(c, 5, yToIStep(c.word), "step6")
      [] c.pc = "step6" -> AfterStep(c, 6, longSuffixStep(c.word, c.r1), "step7")
      [] c.pc = "step7" -> AfterStep(c, 7, secondarySuffixStep(c.word, c.r1), "step8")
      [] c.pc = "step8" -> AfterStep(c, 8, removalStep(c.word, c.r2), "step9")
      [] c.pc = "step9" ->
           LET v == finalStep(c.word, c.r1, c.r2)
           IN  [AfterStep(c, 9, v, "done") EXCEPT !.result = v]
      [] OTHER -> c

\* StemEnglish run from a state of its locals to its return.
RECURSIVE runStem(_)
runStem(c) == IF c.pc = "done" THEN c.result ELSE runStem(stemStep(c))

\* Porter2Stemmer.StemEnglish(word): needs no language on the stemmer.
StemEnglish(w) == runStem(NewStemCall(w))

\* NewPorter2Stemmer accepting every language.
NewPorter2StemmerAnyLanguage(lang) == [stemmer |-> [lang |-> lang], err |-> "nil"]

\* NewPorter2Stemmer(lang): a stemmer for English, a configuration error for
\* an unsupported language.
NewPorter2Stemmer(lang) ==
    IF lang = English
    THEN [stemmer |-> [lang |-> lang], err |-> "nil"]
    ELSE [stemmer |-> Nil, err |-> "ErrLanguageNotSupported"]

(***************************************************************************)
(* Text                                                                    *)
(*                                                                         *)
(* A TokenList, a [][]string and a map are references: the field of the    *)
(* Text holds the reference, and the heap holds what it refers to.  The    *)
(* heap maps the place of an allocation to the cell allocated there (each  *)
(* place allocates once in the life of a Text), a reference is the place.  *)
(* Every accessor takes and returns a memory m: the Text m.t, the heap     *)
(* m.heap and the log of the calls (m.first: what the first call of each   *)
(* accessor returned; m.same: every call so far returned what the first    *)
(* call of its accessor returned), and returns its results with it as      *)
(* value and err.                                                          *)
(***************************************************************************)
\* The default regular expression of the RegexTokenizer, and one that
\* regexp.Compile rejects.
REGEX_ENGLISH_WORDS == "\\b\\w+\\b"

InvalidRegex == "("

\* The class \w of regexp: ASCII letters, digits and the underscore.
IsWordChar(r) ==
    r \in Range(LowerLetters) \cup Range(UpperLetters) \cup {"_"} \/ IsNumber(r)

\* regexp.FindAllString(chunk, -1) for \b\w+\b: the maximal runs of word
\* characters, from left to right.
RECURSIVE runsFrom(_, _, _)
runsFrom(rest, run, runs) ==
    LET closed == IF run # <<>> THEN Append(runs, run) ELSE runs
    IN  IF rest = <<>> THEN closed
        ELSE IF IsWordChar(Head(rest)) THEN runsFrom(Tail(rest), Append(run, Head(rest)), runs)
        ELSE runsFrom(Tail(rest), <<>>, closed)

\* NewRegexTokenizer: the default regular expression for the empty one.
NewRegexTokenizer(regex) ==
    [regex |-> IF regex = "" THEN REGEX_ENGLISH_WORDS ELSE regex]

\* RegexTokenizer.Tokenize: the error of regexp.Compile, or the matches.
RegexTokenize(t, chunk) ==
    IF t.regex = InvalidRegex
    THEN [tokens |-> <<>>, err |-> "error parsing regexp"]
    ELSE [tokens |-> runsFrom(chunk, <<>>, <<>>), err |-> "nil"]

\* A new cell of the heap: make, or the first append to a nil slice.
Allocate(heap, place, cell) ==
    [ref |-> [array |-> place],
     heap |-> [p \in DOMAIN heap \cup {place} |-> IF p = place THEN cell ELSE heap[p]]]

\* What a reference refers to; nil and a count are what they are.
Deref(heap, ref) ==
    IF "array" \in DOMAIN ref THEN [elems |-> heap[ref.array]] ELSE ref

\* The elements of a slice: none for the nil slice.
Elems(heap, ref) == IF IsNil(ref) THEN <<>> ELSE heap[ref.array]

\* tokenlist.New(tokens): a list of its own, never nil.
tokenlistNew(heap, tokens) == Allocate(heap, "tokenlist.New", tokens)

\* NewCopy returning the list it was given.
tokenlistNewCopyShared(heap, other) == [ref |-> other, heap |-> heap]

\* tokenlist.NewCopy(other): a list of its own with the tokens of other.
tokenlistNewCopy(heap, other) == Allocate(heap, "tokenlist.NewCopy", heap[other.array])

\* TypeCounter.CountTypes: a map, never nil.
CountTypes(tokens) ==
    [tok \in Range(tokens) |-> Cardinality({j \in 1..Len(tokens) : tokens[j] = tok})]

\* text.New(t, WithLanguage(lang), WithTokenizer(NewRegexTokenizer(regex))):
\* every cache is nil.
NewText(t, lang, regex) ==
    LET l == IF lang = Unknown THEN English ELSE lang
        st == NewPorter2Stemmer(l)
        sy == NewSSPSyllableTokenizer(l)
    IN  IF st.err # "nil" THEN [text |-> Nil, err |-> st.err]
        ELSE IF sy.err # "nil" THEN [text |-> Nil, err |-> sy.err]
        ELSE [text |-> [text |-> t,
                        lang |-> l,
                        stemmer |-> st.stemmer,
                        tokenizer |-> NewRegexTokenizer(regex),
                        sentenceSegmenter |-> NewSentenceSegmenter(l),
                        sspSyllableTokenizer |-> sy.tokenizer,
                        tokens |-> Nil,
                        stems |-> Nil,
                        typecount |-> Nil,
                        words |-> Nil,
                        sentences |-> Nil,
                        syllables |-> Nil],
              err |-> "nil"]

\* The cached accessors of a Text.
CachedAccessors == {"Tokens", "Stems", "TypeCount", "Words", "Sentences", "Syllables"}

\* What a call returned.
Returned(a, heap, value, err) ==
    [accessor |-> a, value |-> value, content |-> Deref(heap, value), err |-> err]

\* What the accessor a returns, with the memory it leaves: the Text t and
\* the heap, and the log of the calls before (m.first, m.same) with this one.
Returning(a, m, t, heap, value, err) ==
    LET ret == Returned(a, heap, value, err)
    IN  [t |-> t, heap |-> heap, value |-> value, err |-> err,
         first |-> IF a \in CachedAccessors /\ ~m.first[a].called
                   THEN [m.first EXCEPT ![a] = [called |-> TRUE, first |-> ret]]
                   ELSE m.first,
         same |-> /\ m.same
                  /\ (a \in CachedAccessors /\ m.first[a].called) => ret = m.first[a].first]

\* Text.Tokens.
TextTokens(m) ==
    IF IsNil(m.t.tokens)
    THEN LET r == RegexTokenize(m.t.tokenizer, m.t.text)
             n == tokenlistNew(m.heap, r.tokens)
         IN  IF r.err # "nil" THEN Returning("Tokens", m, m.t, m.heap, Nil, r.err)
             ELSE Returning("Tokens", m, [m.t EXCEPT !.tokens = n.ref], n.heap, n.ref, "nil")
    ELSE Returning("Tokens", m, m.t, m.heap, m.t.tokens, "nil")

\* Stems stemming the tokens where they are, without a copy.
TextStemsInPlace(m) ==
    IF IsNil(m.t.stems)
    THEN LET a == TextTokens(m)
             stemmed == [a.heap EXCEPT ![a.value.array] =
                            [j \in 1..Len(@) |-> StemEnglish(@[j])]]
         IN  IF a.err # "nil" THEN Returning("Stems", a, a.t, a.heap, Nil, a.err)
             ELSE Returning("Stems", a, [a.t EXCEPT !.stems = a.value], stemmed, a.value, "nil")
    ELSE Returning("Stems", m, m.t, m.heap, m.t.stems, "nil")

\* Text.Stems: the copy of the tokens, each replaced by its stem.
TextStems(m) ==
    IF IsNil(m.t.stems)
    THEN LET a == TextTokens(m)
             c == tokenlistNewCopy(a.heap, a.value)
             stemmed == [c.heap EXCEPT ![c.ref.array] =
                            [j \in 1..Len(@) |-> StemEnglish(@[j])]]
         IN  IF a.err # "nil" THEN Returning("Stems", a, a.t, a.heap, Nil, a.err)
             ELSE Returning("Stems", a, [a.t EXCEPT !.stems = c.ref], stemmed, c.ref, "nil")
    ELSE Returning("Stems", m, m.t, m.heap, m.t.stems, "nil")

\* Text.TypeCount.
TextTypeCount(m) ==
    IF IsNil(m.t.typecount)
    THEN LET s == TextStems(m)
             n == Allocate(s.heap, "CountTypes", CountTypes(Elems(s.heap, s.value)))
         IN  IF s.err # "nil" THEN Returning("TypeCount", s, s.t, s.heap, Nil, s.err)
             ELSE Returning("TypeCount", s, [s.t EXCEPT !.typecount = n.ref], n.heap, n.ref, "nil")
    ELSE Returning("TypeCount", m, m.t, m.heap, m.t.typecount, "nil")

\* Text.Words: appending to the nil slice, which stays nil without a word.
TextWords(m) ==
    IF IsNil(m.t.words)
    THEN LET ws == WhitespaceTokenize(m.t.text)
             n == Allocate(m.heap, "Words", ws)
         IN  IF ws = <<>> THEN Returning("Words", m, m.t, m.heap, m.t.words, "nil")
             ELSE Returning("Words", m, [m.t EXCEPT !.words = n.ref], n.heap, n.ref, "nil")
    ELSE Returning("Words", m, m.t, m.heap, m.t.words, "nil")

\* Text.Sentences: appending to the nil slice, as Words does.
TextSentences(m) ==
    IF IsNil(m.t.sentences)
    THEN LET ss == SegTokenize(m.t.sentenceSegmenter, m.t.text)
             n == Allocate(m.heap, "Sentences", ss)
         IN  IF ss = <<>> THEN Returning("Sentences", m, m.t, m.heap, m.t.sentences, "nil")
             ELSE Returning("Sentences", m, [m.t EXCEPT !.sentences = n.ref], n.heap, n.ref, "nil")
    ELSE Returning("Sentences", m, m.t, m.heap, m.t.sentences, "nil")

\* Text.WordCount.
TextWordCount(m) ==
    LET w == TextWords(m)
    IN  Returning("WordCount", w, w.t, w.heap, [count |-> Len(Elems(w.heap, w.value))], "nil")

\* Text.Syllables: make with the capacity WordCount(), then the syllables of
\* each of Words().
TextSyllables(m) ==
    IF IsNil(m.t.syllables)
    THEN LET wc == TextWordCount(m)
             w == TextWords(wc)
             strs == Elems(w.heap, w.value)
             n == Allocate(w.heap, "Syllables",
                           [j \in 1..Len(strs) |->
                               SSPTokenize(w.t.sspSyllableTokenizer, strs[j])])
         IN  Returning("Syllables", w, [w.t EXCEPT !.syllables = n.ref], n.heap, n.ref, "nil")
    ELSE Returning("Syllables", m, m.t, m.heap, m.t.syllables, "nil")

(***************************************************************************)
(* State                                                                   *)
(***************************************************************************)
VARIABLES
    ssp,                 \* the SSPSyllableTokenizer instance
    word,                \* the argument of SSPSyllableTokenizer.Tokenize
    i,                   \* the loop index of Tokenize
    syllable,            \* the syllable being accumulated
    syllables,           \* the syllables of the trigram loop
    vi,                  \* the syllables validateSyllables has ranged over
    currentSyllable,     \* validateSyllables: the syllable being merged
    validatedSyllables,  \* validateSyllables: its result so far
    sspResult,           \* what Tokenize returned
    sspErr,              \* the error Tokenize returned
    sspLang,             \* the argument of NewSSPSyllableTokenizer
    sspNewErr,           \* the error NewSSPSyllableTokenizer returned
    sspPc,               \* where the call of SSPSyllableTokenizer.Tokenize is
    seg,                 \* the SentenceSegmenter instance
    chunk,               \* the argument of SentenceSegmenter.Tokenize
    words,               \* the words of the chunk
    k,                   \* the words the loop has ranged over
    sentence,            \* the sentence being accumulated
    prevWord,            \* the word of the previous iteration
    sentences,           \* the sentences appended so far
    segResult,           \* what Tokenize returned
    segErr,              \* the error Tokenize returned
    segLang,             \* the language option of NewSentenceSegmenter
    segPc,               \* where the call of SentenceSegmenter.Tokenize is
    sspCalls,            \* the locals of each concurrent call on ssp
    segCalls,            \* the locals of each concurrent call on seg
    stemmer,             \* the Porter2Stemmer instance
    stemLang,            \* the argument of NewPorter2Stemmer
    stemNewErr,          \* the error NewPorter2Stemmer returned
    stemCall,            \* the locals of the call of Stem or StemEnglish
    txt,                 \* the Text instance
    textHeap,            \* what the references of the Text refer to
    textNew,             \* the arguments of text.New
    textNewErr,          \* the error text.New returned
    textRet,             \* what the last call of an accessor returned
    textFirst,           \* what the first call of each accessor returned
    textSame,            \* every call returned what the first call returned
    textPc,              \* whether the Text is constructed
    myTokens,            \* the caller's variable for the list Tokens() returned
    tlPkg,               \* the tokenlist package the caller imports
    tlHeap,              \* the arrays behind the slices of the TokenLists
    tlL,                 \* the TokenList l
    tlCopy,              \* the TokenList NewCopy(l) returned
    tlLast,              \* the last call on a TokenList and what it returned
    tlPc,                \* whether the caller of the TokenLists is running
    vecText,             \* the Text the vectors are asked of
    vecNew,              \* the arguments and options of its text.New
    vecNewErr,           \* the error its text.New returned
    vecRet,              \* what the last call of a Vectorize method returned
    vecPc,               \* whether that Text is constructed
    raceText,            \* the text of the Text shared by the threads, and the accessor they call
    raceCache,           \* the field t.words or t.sentences of that Text
    raceHeap,            \* the arrays behind the slices of that field
    raceCalls            \* the locals of each thread's call of the accessor

sspVars ==
    <<ssp, word, i, syllable, syllables, vi, currentSyllable,
      validatedSyllables, sspResult, sspErr, sspLang, sspNewErr, sspPc>>

segVars ==
    <<seg, chunk, words, k, sentence, prevWord, sentences, segResult, segErr,
      segLang, segPc>>

callVars == <<sspCalls, segCalls>>

stemVars == <<stemmer, stemLang, stemNewErr, stemCall>>

textVars ==
    <<txt, textHeap, textNew, textNewErr, textRet, textFirst, textSame, textPc,
      myTokens>>

tlVars == <<tlPkg, tlHeap, tlL, tlCopy, tlLast, tlPc>>

vecVars == <<vecText, vecNew, vecNewErr, vecRet, vecPc>>

raceVars == <<raceText, raceCache, raceHeap, raceCalls>>

libVars == <<tlVars, vecVars, raceVars>>

\* What the calls of the tokenizers leave alone.
laterVars == <<stemVars, textVars, libVars>>

otherVars == <<callVars, laterVars>>

vars == <<sspVars, segVars, otherVars>>

(***************************************************************************)
(* Inputs                                                                  *)
(***************************************************************************)
\* A Language value that is none of the constants: Language is a uint16.
UnsupportedLanguage == English + 1

\* The languages a constructor is called with.
Languages == {Unknown, English, UnsupportedLanguage}

\* A vowel, a nasal, a stop, a punctuation mark, a space and a digit.
SSPAlphabet == {"a", "n", "t", "-", " ", "9"}

ExampleWords ==
    { <<"j", "u", "s", "t", "i", "f", "i", "c", "a", "t", "i", "o", "n">>,
      <<"i", "c", "e", "-", "n", "i", "n", "e">>,
      <<"i", "c", "e", "9">>,
      <<"i", "c", "e", " ", "9">>,
      <<"t", "w", "o", " ", "w", "o", "r", "d", "s">>,
      <<".", "!", "?">>,
      <<"!", "?">>,
      <<"F", ".", "B", ".", "I", ".">>,
      <<"s", "h", "e", "d">>,
      <<"s", "p", "i", "d", "e", "r">> }

Words == SeqsUpTo(SSPAlphabet, MaxWordLen) \cup ExampleWords

\* The pieces the exhaustive texts are put together from: a space, a letter,
\* a two-byte letter, two sentence punctuation marks and an abbreviation.
Pieces ==
    { <<" ">>, <<"a">>, <<"U+00E9">>, <<".">>, <<"!">>, <<"D", "r", ".">> }

ExampleChunks ==
    { <<"D", "r", ".", " ", "S", "m", "i", "t", "h", " ", "l", "e", "f", "t",
        ".", " ", "H", "e", " ", "r", "e", "t", "u", "r", "n", "e", "d", ".">>,
      <<"T", "h", "e", " ", "F", ".", "B", ".", "I", ".", " ", "a", "r", "r",
        "i", "v", "e", "d", ".">>,
      <<"H", "e", "l", "l", "o", " ", "w", "o", "r", "l", "d">>,
      <<"C", "r", "a", "z", "y", " ", "t", "i", "m", "e", "s", ",", " ", "i",
        "n", "d", "e", "e", "d", ".", " ", "E", "l", "l", "i", "p", "s", "e",
        "s", ".", ".", ".", " ", "I", "n", "t", "e", "r", "r", "o", "b", "a",
        "n", "g", "!", "?", " ", "T", "h", "i", "s", " ", "l", "a", "s", "t">>,
      <<"M", "r", ".", " ", "F", "o", "x", ",", "\n", " ", "M", "r", "s", ".",
        "\t", "M", "s", ".", " ", "H", "o", "n", ".", " ", "P", "h", ".", "D",
        ".", " ", "m", "r", ".", " ", "$", "3", ".", "1", "4", "!", " ">> }

Chunks == {Concat(ps) : ps \in SeqsUpTo(Pieces, MaxPieces)} \cup ExampleChunks

(***************************************************************************)
(* SSPSyllableTokenizer.Tokenize, one loop iteration at a time             *)
(***************************************************************************)
\* No call of SSPSyllableTokenizer.Tokenize is under way.
SSPIdle ==
    /\ ssp = NewSSPSyllableTokenizer(English).tokenizer
    /\ word = <<>>
    /\ i = 0
    /\ syllable = <<>>
    /\ syllables = <<>>
    /\ vi = 0
    /\ currentSyllable = <<>>
    /\ validatedSyllables = <<>>
    /\ sspResult = <<>>
    /\ sspErr = "unset"
    /\ sspLang = English
    /\ sspNewErr = "nil"
    /\ sspPc = "idle"

\* No call of SentenceSegmenter.Tokenize is under way.
SegIdle ==
    /\ seg = NewSentenceSegmenter(English)
    /\ chunk = <<>>
    /\ words = <<>>
    /\ k = 0
    /\ sentence = <<>>
    /\ prevWord = <<>>
    /\ sentences = <<>>
    /\ segResult = <<>>
    /\ segErr = "unset"
    /\ segLang = English
    /\ segPc = "idle"

\* No concurrent calls are under way.
CallsIdle == sspCalls = <<>> /\ segCalls = <<>>

\* No stemmer is in use.
StemIdle ==
    /\ stemmer = Nil
    /\ stemLang = Unknown
    /\ stemNewErr = "unset"
    /\ stemCall = [NewStemCall(<<>>) EXCEPT !.pc = "idle"]

\* No Text is in use: no accessor has returned or was called.
TextIdle ==
    /\ txt = Nil
    /\ textHeap = <<>>
    /\ textNew = [t |-> <<>>, lang |-> Unknown, regex |-> ""]
    /\ textNewErr = "unset"
    /\ textRet = [accessor |-> "none"]
    /\ textFirst = [a \in CachedAccessors |-> [called |-> FALSE]]
    /\ textSame = TRUE
    /\ textPc = "idle"
    /\ myTokens = Nil

\* No TokenList is in use.
TokenListIdle ==
    /\ tlPkg = "none"
    /\ tlHeap = <<>>
    /\ tlL = Nil
    /\ tlCopy = Nil
    /\ tlLast = [op |-> "none"]
    /\ tlPc = "idle"

\* No vector is asked of a Text.
VectorizeIdle ==
    /\ vecText = Nil
    /\ vecNew = [t |-> <<>>, vocab |-> Nil, lang |-> Unknown, regex |-> ""]
    /\ vecNewErr = "unset"
    /\ vecRet = [method |-> "none"]
    /\ vecPc = "idle"

\* No Text is shared by threads.
RaceIdle ==
    /\ raceText = [accessor |-> "none", text |-> <<>>]
    /\ raceCache = Nil
    /\ raceHeap = <<>>
    /\ raceCalls = <<>>

LibIdle == TokenListIdle /\ VectorizeIdle /\ RaceIdle

InitSyllable ==
    /\ SegIdle
    /\ CallsIdle
    /\ StemIdle
    /\ TextIdle
    /\ LibIdle
    /\ ssp = Nil
    /\ sspErr = "unset"
    /\ sspNewErr = "unset"
    /\ i = 0
    /\ syllable = <<>>
    /\ syllables = <<>>
    /\ vi = 0
    /\ currentSyllable = <<>>
    /\ validatedSyllables = <<>>
    /\ sspResult = <<>>
    /\ sspPc = "new"
    /\ sspLang \in Languages
    /\ word \in Words

\* NewSSPSyllableTokenizer(sspLang): the caller goes on to Tokenize only with
\* a tokenizer.
SSPNew ==
    /\ UNCHANGED <<segVars, otherVars>>
    /\ sspPc = "new"
    /\ LET r == NewSSPSyllableTokenizer(sspLang)
       IN  /\ ssp' = r.tokenizer
           /\ sspNewErr' = r.err
           /\ sspPc' = IF r.err = "nil" THEN "call" ELSE "failed"
    /\ UNCHANGED <<word, i, syllable, syllables, vi, currentSyllable,
                   validatedSyllables, sspResult, sspErr, sspLang>>

\* Entry: the short-word return, or the first rune starts the syllable.
SSPEnter ==
    /\ UNCHANGED <<segVars, otherVars>>
    /\ sspPc = "call"
    /\ IF isShortWord(word)
       THEN /\ sspResult' = <<word>>
            /\ sspErr' = "nil"
            /\ sspPc' = "done"
            /\ UNCHANGED <<i, syllable>>
       ELSE /\ syllable' = <<At(word, 0)>>
            /\ i' = 1
            /\ sspPc' = "scan"
            /\ UNCHANGED <<sspResult, sspErr>>
    /\ UNCHANGED <<ssp, word, syllables, vi, currentSyllable, validatedSyllables,
                   sspLang, sspNewErr>>

\* for i := 1; i <= len(runeToken)-2; i++
SSPScanStep ==
    /\ UNCHANGED <<segVars, otherVars>>
    /\ sspPc = "scan"
    /\ i <= Len(word) - 2
    /\ LET r == scanStep(ssp, word, i, syllable, syllables)
       IN  /\ syllable' = r.syllable
           /\ syllables' = r.syllables
    /\ i' = i + 1
    /\ UNCHANGED <<ssp, word, vi, currentSyllable, validatedSyllables,
                   sspResult, sspErr, sspLang, sspNewErr, sspPc>>

\* After the loop: the last rune, then validateSyllables is entered.
SSPLastRune ==
    /\ UNCHANGED <<segVars, otherVars>>
    /\ sspPc = "scan"
    /\ i > Len(word) - 2
    /\ syllables' = appendLast(word, syllable, syllables)
    /\ sspPc' = "validate"
    /\ UNCHANGED <<ssp, word, i, syllable, vi, currentSyllable,
                   validatedSyllables, sspResult, sspErr, sspLang, sspNewErr>>

\* validateSyllables: 0 or 1 syllables return immediately.
SSPValidateShort ==
    /\ UNCHANGED <<segVars, otherVars>>
    /\ sspPc = "validate"
    /\ Len(syllables) <= 1
    /\ sspResult' = syllables
    /\ sspErr' = "nil"
    /\ sspPc' = "done"
    /\ UNCHANGED <<ssp, word, i, syllable, syllables, vi, currentSyllable,
                   validatedSyllables, sspLang, sspNewErr>>

\* validateSyllables: for _, syllable := range syllables
SSPValidateStep ==
    /\ UNCHANGED <<segVars, otherVars>>
    /\ sspPc = "validate"
    /\ Len(syllables) > 1
    /\ vi < Len(syllables)
    /\ LET r == validateStep(ssp, At(syllables, vi), currentSyllable,
                             validatedSyllables)
       IN  /\ currentSyllable' = r.currentSyllable
           /\ validatedSyllables' = r.validatedSyllables
    /\ vi' = vi + 1
    /\ UNCHANGED <<ssp, word, i, syllable, syllables, sspResult, sspErr,
                   sspLang, sspNewErr, sspPc>>

\* validateSyllables: the last syllable, and the return of Tokenize.
SSPValidateReturn ==
    /\ UNCHANGED <<segVars, otherVars>>
    /\ sspPc = "validate"
    /\ Len(syllables) > 1
    /\ vi = Len(syllables)
    /\ validatedSyllables' = validateLast(currentSyllable, validatedSyllables)
    /\ sspResult' = validatedSyllables'
    /\ sspErr' = "nil"
    /\ sspPc' = "done"
    /\ UNCHANGED <<ssp, word, i, syllable, syllables, vi, currentSyllable,
                   sspLang, sspNewErr>>

NextSyllable ==
    \/ SSPNew
    \/ SSPEnter
    \/ SSPScanStep
    \/ SSPLastRune
    \/ SSPValidateShort
    \/ SSPValidateStep
    \/ SSPValidateReturn

SpecSyllable == InitSyllable /\ [][NextSyllable]_vars

(***************************************************************************)
(* SentenceSegmenter.Tokenize, one loop iteration at a time                *)
(***************************************************************************)
InitSentence ==
    /\ SSPIdle
    /\ CallsIdle
    /\ StemIdle
    /\ TextIdle
    /\ LibIdle
    /\ seg = Nil
    /\ segErr = "unset"
    /\ words = <<>>
    /\ k = 0
    /\ sentence = <<>>
    /\ prevWord = <<>>
    /\ sentences = <<>>
    /\ segResult = <<>>
    /\ segPc = "new"
    /\ segLang \in Languages
    /\ chunk \in Chunks

\* NewSentenceSegmenter(SentenceSegmenterWithLanguage(segLang)): there is no
\* error to return, the caller goes on to Tokenize.
SegNew ==
    /\ UNCHANGED <<sspVars, otherVars>>
    /\ segPc = "new"
    /\ seg' = NewSentenceSegmenter(segLang)
    /\ segPc' = "call"
    /\ UNCHANGED <<chunk, words, k, sentence, prevWord, sentences, segResult,
                   segErr, segLang>>

\* Entry: the whitespace tokenizer splits the chunk into words.
SegEnter ==
    /\ UNCHANGED <<sspVars, otherVars>>
    /\ segPc = "call"
    /\ words' = WhitespaceTokenize(chunk)
    /\ segPc' = "loop"
    /\ UNCHANGED <<seg, chunk, k, sentence, prevWord, sentences, segResult,
                   segErr, segLang>>

\* for _, word := range words
SegLoopStep ==
    /\ UNCHANGED <<sspVars, otherVars>>
    /\ segPc = "loop"
    /\ k < Len(words)
    /\ LET r == segmentStep(seg, At(words, k), sentence, prevWord, sentences)
       IN  /\ sentence' = r.sentence
           /\ prevWord' = r.prevWord
           /\ sentences' = r.sentences
    /\ k' = k + 1
    /\ UNCHANGED <<seg, chunk, words, segResult, segErr, segLang, segPc>>

\* After the loop: the last sentence, and the return.
SegReturn ==
    /\ UNCHANGED <<sspVars, otherVars>>
    /\ segPc = "loop"
    /\ k = Len(words)
    /\ sentences' = segmentLast(sentence, sentences)
    /\ segResult' = sentences'
    /\ segErr' = "nil"
    /\ segPc' = "done"
    /\ UNCHANGED <<seg, chunk, words, k, sentence, prevWord, segLang>>

NextSentence ==
    \/ SegNew
    \/ SegEnter
    \/ SegLoopStep
    \/ SegReturn

SpecSentence == InitSentence /\ [][NextSentence]_vars

(***************************************************************************)
(* Concurrent calls of Tokenize on one tokenizer or one segmenter          *)
(***************************************************************************)
\* The words and the texts of the concurrent calls.
ConcurrentWords ==
    { <<>>,
      <<"a", "9", "a">>,
      <<"n", "t", "a">>,
      <<"s", "h", "e", "d">>,
      <<"i", "c", "e", " ", "9">>,
      <<"i", "c", "e", "-", "n", "i", "n", "e">> }

ConcurrentChunks ==
    { <<>>,
      <<"H", "i", ".", " ", "D", "r", ".", " ", "X", " ", "l", "e", "f", "t", "!">>,
      <<"G", "o", "?", " ", "N", "o">>,
      <<"F", ".", "B", ".", "I", ".", "\n", "o", "k">> }

InitConcurrent ==
    /\ SSPIdle
    /\ SegIdle
    /\ StemIdle
    /\ TextIdle
    /\ LibIdle
    /\ \E n \in 1..MaxCallers :
          \/ /\ sspCalls \in [1..n -> {NewSSPCall(w) : w \in ConcurrentWords}]
             /\ segCalls = <<>>
          \/ /\ segCalls \in [1..n -> {NewSegCall(c) : c \in ConcurrentChunks}]
             /\ sspCalls = <<>>

\* The call c on the tokenizer takes its next step.
SSPCallStep(c) ==
    /\ c \in DOMAIN sspCalls
    /\ sspCalls[c].pc # "done"
    /\ sspCalls' = [sspCalls EXCEPT ![c] = sspStep(ssp, sspCalls[c])]
    /\ ssp' = sspFieldsAfter(ssp, sspCalls[c])
    /\ UNCHANGED <<word, i, syllable, syllables, vi, currentSyllable,
                   validatedSyllables, sspResult, sspErr, sspLang, sspNewErr,
                   sspPc, segVars, segCalls, laterVars>>

\* The call c on the segmenter takes its next step.
SegCallStep(c) ==
    /\ c \in DOMAIN segCalls
    /\ segCalls[c].pc # "done"
    /\ segCalls' = [segCalls EXCEPT ![c] = segStep(seg, segCalls[c])]
    /\ seg' = segFieldsAfter(seg, segCalls[c])
    /\ UNCHANGED <<chunk, words, k, sentence, prevWord, sentences, segResult,
                   segErr, segLang, segPc, sspVars, sspCalls, laterVars>>

NextConcurrent ==
    \E c \in 1..MaxCallers : SSPCallStep(c) \/ SegCallStep(c)

SpecConcurrent == InitConcurrent /\ [][NextConcurrent]_vars

(***************************************************************************)
(* Porter2Stemmer: NewPorter2Stemmer, then Stem; or StemEnglish on a       *)
(* stemmer that was never constructed                                      *)
(***************************************************************************)
\* Two vowels, the letters of "s", "ed" and "y", and the apostrophe.
StemAlphabet == {"a", "e", "s", "d", "y", "'"}

ExampleStemWords ==
    { <<"s", "e", "a", "w", "e", "e", "d">>,
      <<"a", "p", "p", "l", "e">>,
      <<"b", "a", "n", "a", "n", "n", "a">>,
      <<"a", "a", "r", "d", "v", "a", "r", "k">>,
      <<"a", "a", "r", "d", "v", "a", "r", "k", "s">>,
      <<"z", "e", "b", "r", "a">>,
      <<"d", "y", "i", "n", "g">>,
      <<"s", "k", "i", "s">>,
      <<"n", "e", "w", "s">>,
      <<"o", "n", "l", "y">>,
      <<"d", "o", "g", "'", "s">>,
      <<"'", "t", "i", "s">>,
      <<"h", "o", "p", "p", "i", "n", "g">>,
      <<"h", "o", "p", "i", "n", "g">>,
      <<"a", "g", "r", "e", "e", "d">>,
      <<"f", "e", "e", "d">>,
      <<"h", "a", "p", "p", "y">>,
      <<"r", "e", "l", "a", "t", "i", "o", "n", "a", "l">>,
      <<"g", "e", "n", "e", "r", "o", "u", "s", "l", "y">>,
      <<"c", "a", "r", "e", "s", "s", "e", "s">>,
      <<"t", "i", "e", "s">>,
      <<"c", "r", "i", "e", "s">>,
      <<"s", "e", "n", "s", "a", "t", "i", "o", "n", "a", "l">>,
      <<"h", "o", "p", "e", "f", "u", "l", "n", "e", "s", "s">>,
      <<"a", "d", "o", "p", "t", "i", "o", "n">>,
      <<"c", "o", "n", "t", "r", "o", "l", "l">> }

StemWords == SeqsUpTo(StemAlphabet, MaxStemLen) \cup ExampleStemWords

\* &Porter2Stemmer{}: the language was never set.
ZeroPorter2Stemmer == [lang |-> Unknown]

InitStem ==
    /\ SSPIdle
    /\ SegIdle
    /\ CallsIdle
    /\ TextIdle
    /\ LibIdle
    /\ stemNewErr = "unset"
    /\ \/ /\ stemmer = Nil
          /\ stemLang \in Languages
          /\ \E w \in StemWords : stemCall = [NewStemCall(w) EXCEPT !.pc = "new"]
       \/ /\ stemmer = ZeroPorter2Stemmer
          /\ stemLang = Unknown
          /\ \E w \in StemWords : stemCall = NewStemCall(w)

\* NewPorter2Stemmer(stemLang): the caller goes on to Stem only with a stemmer.
StemNew ==
    /\ UNCHANGED <<sspVars, segVars, callVars, textVars, libVars>>
    /\ stemCall.pc = "new"
    /\ LET r == NewPorter2Stemmer(stemLang)
       IN  /\ stemmer' = r.stemmer
           /\ stemNewErr' = r.err
           /\ stemCall' = [stemCall EXCEPT !.pc = IF r.err = "nil" THEN "exceptions"
                                                   ELSE "failed"]
    /\ UNCHANGED stemLang

\* The check of the irregular stems, at the entry of Stem.
StemCheckExceptions ==
    /\ UNCHANGED <<sspVars, segVars, callVars, textVars, libVars>>
    /\ stemCall.pc = "exceptions"
    /\ stemCall' = stemStep(stemCall)
    /\ UNCHANGED <<stemmer, stemLang, stemNewErr>>

\* The next of the steps 1 to 9.
StemRuleStep ==
    /\ UNCHANGED <<sspVars, segVars, callVars, textVars, libVars>>
    /\ stemCall.pc \in {"step1", "step2", "step3", "step4", "step5", "step6",
                        "step7", "step8", "step9"}
    /\ stemCall' = stemStep(stemCall)
    /\ UNCHANGED <<stemmer, stemLang, stemNewErr>>

NextStem ==
    \/ StemNew
    \/ StemCheckExceptions
    \/ StemRuleStep

SpecStem == InitStem /\ [][NextStem]_vars

(***************************************************************************)
(* Text: New, then any sequence of calls of its accessors                  *)
(***************************************************************************)
\* A word, a space, the end of a sentence, and a plural with a capital.
TextPieces ==
    { <<"a", "n">>, <<" ">>, <<".", " ">>, <<"T", "a", "n", "s">> }

ExampleTexts ==
    { <<"a", "p", "p", "l", "e", " ", "b", "a", "n", "a", "n", "n", "a", " ",
        "a", "a", "r", "d", "v", "a", "r", "k", " ",
        "a", "a", "r", "d", "v", "a", "r", "k", "s", " ",
        "z", "e", "b", "r", "a">>,
      <<"d", "o", "g", "'", "s", " ", "d", "o", "g", "s", "!", " ",
        "D", "o", "g", "s", "?">> }

Texts == {Concat(ps) : ps \in SeqsUpTo(TextPieces, MaxTextPieces)} \cup ExampleTexts

InitText ==
    /\ SSPIdle
    /\ SegIdle
    /\ CallsIdle
    /\ StemIdle
    /\ LibIdle
    /\ txt = Nil
    /\ textHeap = <<>>
    /\ textNewErr = "unset"
    /\ textRet = [accessor |-> "none"]
    /\ textFirst = [a \in CachedAccessors |-> [called |-> FALSE]]
    /\ textSame = TRUE
    /\ textPc = "new"
    /\ myTokens = Nil
    /\ \E lang \in Languages, regex \in {"", InvalidRegex}, t \in Texts :
          textNew = [t |-> t, lang |-> lang, regex |-> regex]

\* text.New: the caller goes on to the accessors only with a Text.
TextNew ==
    /\ UNCHANGED <<sspVars, segVars, callVars, stemVars, libVars>>
    /\ textPc = "new"
    /\ LET r == NewText(textNew.t, textNew.lang, textNew.regex)
       IN  /\ txt' = r.text
           /\ textNewErr' = r.err
           /\ textPc' = IF r.err = "nil" THEN "ready" ELSE "failed"
    /\ UNCHANGED <<textHeap, textNew, textRet, textFirst, textSame, myTokens>>

\* A call of the accessor a that returns r; the caller keeps the list of
\* Tokens() in myTokens.
Returns(a, r) ==
    /\ UNCHANGED <<sspVars, segVars, callVars, stemVars, libVars>>
    /\ textPc = "ready"
    /\ txt' = r.t
    /\ textHeap' = r.heap
    /\ textRet' = Returned(a, r.heap, r.value, r.err)
    /\ textFirst' = r.first
    /\ textSame' = r.same
    /\ myTokens' = IF a = "Tokens" THEN r.value ELSE myTokens
    /\ UNCHANGED <<textNew, textNewErr, textPc>>

\* The memory the accessors work on.
Memory == [t |-> txt, heap |-> textHeap, first |-> textFirst, same |-> textSame]

CallTokens == Returns("Tokens", TextTokens(Memory))

CallStems == Returns("Stems", TextStems(Memory))

CallTypeCount == Returns("TypeCount", TextTypeCount(Memory))

CallWords == Returns("Words", TextWords(Memory))

CallSentences == Returns("Sentences", TextSentences(Memory))

CallSyllables == Returns("Syllables", TextSyllables(Memory))

CallWordCount == Returns("WordCount", TextWordCount(Memory))

NextText ==
    \/ TextNew
    \/ CallTokens
    \/ CallStems
    \/ CallTypeCount
    \/ CallWords
    \/ CallSentences
    \/ CallSyllables
    \/ CallWordCount

SpecText == InitText /\ [][NextText]_vars

(***************************************************************************)
(* Text: the caller writes to the list Tokens() returned                   *)
(***************************************************************************)
\* myTokens = append(myTokens, myTokens[0]) on the list as Tokens() returned
\* it: its capacity is its length (tokenlist.New), so append moves the
\* elements to a list of the caller's.
CallerAppend ==
    /\ UNCHANGED <<sspVars, segVars, callVars, stemVars, libVars>>
    /\ textPc = "ready"
    /\ ~IsNil(myTokens)
    /\ myTokens = txt.tokens
    /\ Len(textHeap[myTokens.array]) >= 1
    /\ LET old == textHeap[myTokens.array]
           n == Allocate(textHeap, "append", Append(old, old[1]))
       IN  /\ myTokens' = n.ref
           /\ textHeap' = n.heap
    /\ UNCHANGED <<txt, textNew, textNewErr, textRet, textFirst, textSame, textPc>>

\* myTokens[0] = myTokens[1].
CallerOverwrite ==
    /\ UNCHANGED <<sspVars, segVars, callVars, stemVars, libVars>>
    /\ textPc = "ready"
    /\ ~IsNil(myTokens)
    /\ Len(textHeap[myTokens.array]) >= 2
    /\ LET list == textHeap[myTokens.array]
       IN  textHeap' = [textHeap EXCEPT ![myTokens.array] = [list EXCEPT ![1] = list[2]]]
    /\ UNCHANGED <<txt, textNew, textNewErr, textRet, textFirst, textSame, textPc,
                   myTokens>>

NextCaller ==
    \/ NextText
    \/ CallerAppend
    \/ CallerOverwrite

SpecCaller == InitText /\ [][NextCaller]_vars

(***************************************************************************)
(* Either call                                                             *)
(***************************************************************************)
Init == InitSyllable \/ InitSentence

Next == NextSyllable \/ NextSentence

Spec == Init /\ [][Next]_vars

(***************************************************************************)
(* The claims' own vocabulary                                              *)
(***************************************************************************)
VowelLetters == {"a", "e", "i", "o", "u", "y", "A", "E", "I", "O", "U", "Y"}

HasVowelLetter(s) == \E p \in 1..Len(s) : s[p] \in VowelLetters

IsSeparatorUnit(s) == Len(s) = 1 /\ (IsPunct(s[1]) \/ IsSpace(s[1]))

\* A syllable proper that lacks a vowel.
IsVowellessSyllable(s) == s # <<>> /\ ~IsSeparatorUnit(s) /\ ~HasVowelLetter(s)

IsSuffix(a, b) == Len(a) <= Len(b) /\ SubSeq(b, Len(b) - Len(a) + 1, Len(b)) = a

RECURSIVE IsSubsequence(_, _)
IsSubsequence(a, b) ==
    IF a = <<>> THEN TRUE
    ELSE IF b = <<>> THEN FALSE
    ELSE IF Head(a) = Head(b) THEN IsSubsequence(Tail(a), Tail(b))
    ELSE IsSubsequence(a, Tail(b))

\* The punctuation at interior and final positions and the white space at
\* interior positions of w, from position p on, each as a unit of its own.
RECURSIVE SeparatorUnitsFrom(_, _)
SeparatorUnitsFrom(w, p) ==
    IF p > Len(w) THEN <<>>
    ELSE (IF IsPunct(w[p]) \/ (IsSpace(w[p]) /\ p < Len(w))
          THEN << <<w[p]>> >> ELSE <<>>) \o SeparatorUnitsFrom(w, p + 1)

RECURSIVE JoinSpace(_)
JoinSpace(ss) ==
    IF ss = <<>> THEN <<>>
    ELSE IF Len(ss) = 1 THEN ss[1]
    ELSE ss[1] \o <<" ">> \o JoinSpace(Tail(ss))

SentencePunctuation == {".", "!", "?"}

Abbreviations ==
    { <<"M", "r", ".">>, <<"M", "r", "s", ".">>, <<"M", "s", ".">>,
      <<"D", "r", ".">>, <<"H", "o", "n", ".">> }

Periods(w) == Cardinality({p \in 1..Len(w) : w[p] = "."})

\* The sentence-boundary predicate as the specification states it.
EndsSentenceAsSpecified(w) ==
    /\ w # <<>>
    /\ w[Len(w)] \in SentencePunctuation
    /\ w \notin Abbreviations
    /\ Periods(w) <= 1

\* What the segmenter's own predicate says of w.
SegmenterEnds(w) == endsSentence(w, seg.punctuation, seg.stopWords)

IsLetter(r) == r \in Range(LowerLetters) \cup Range(UpperLetters) \cup {"U+00E9"}

\* Letters followed by "...".
EndsInEllipsis(w) ==
    /\ Len(w) >= 4
    /\ SubSeq(w, Len(w) - 2, Len(w)) = <<".", ".", ".">>
    /\ \A p \in 1..(Len(w) - 3) : IsLetter(w[p])

\* A step of the loop of validateSyllables is being taken.
ValidateStepTaken ==
    /\ sspPc = "validate"
    /\ Len(syllables) > 1
    /\ vi < Len(syllables)
    /\ vi' = vi + 1

(***************************************************************************)
(* Claims about SSPSyllableTokenizer.Tokenize (SpecSyllable)               *)
(***************************************************************************)
\* C1: the strings Tokenize(w) returns, concatenated in order, are exactly w:
\* no code point is dropped, duplicated or reordered.
C1_SyllablesReconstructWord == sspPc = "done" => Concat(sspResult) = word

\* C7: a word of two or fewer code points is returned as the one-element
\* sequence [w].
C7_ShortWordIsOneElement ==
    (sspPc = "done" /\ Len(word) <= 2) => sspResult = <<word>>

\* A word of two punctuation marks has been returned as one element.
C7_Witness ==
    /\ sspPc = "done"
    /\ Len(word) = 2
    /\ IsPunct(word[1]) /\ IsPunct(word[2])
    /\ sspResult = <<word>>

\* C8: in a word of three or more code points, every punctuation code point
\* at an interior or final position and every white space code point at an
\* interior position is an element of its own of the result, in word order.
C8_SeparatorsAreOwnElements ==
    (sspPc = "done" /\ Len(word) >= 3)
        => IsSubsequence(SeparatorUnitsFrom(word, 2), sspResult)

\* C9: for a word of three or more code points with a vowel and without
\* punctuation or white space, every element of the result has a vowel.
C9_EverySyllableHasVowel ==
    (/\ sspPc = "done"
     /\ Len(word) >= 3
     /\ HasVowelLetter(word)
     /\ \A p \in 1..Len(word) : ~IsPunct(word[p]) /\ ~IsSpace(word[p]))
        => \A j \in 1..Len(sspResult) : HasVowelLetter(sspResult[j])

C12_DigitWordIsOneElement ==
    (sspPc = "done" /\ word # <<>> /\ \A p \in 1..Len(word) : IsNumber(word[p]))
        => sspResult = <<word>>

\* A word of four or more digits has gone through the scan and the validation
\* and has been returned whole.
C12_Witness ==
    /\ sspPc = "done"
    /\ Len(word) >= 4
    /\ \A p \in 1..Len(word) : IsNumber(word[p])
    /\ vi = Len(syllables)
    /\ Len(syllables) >= Len(word)
    /\ sspResult = <<word>>

\* The word w with the letters at the positions in mask in upper case.
Cased(w, mask) == [p \in 1..Len(w) |-> IF p \in mask THEN ToUpper(w[p]) ELSE w[p]]

\* The string s cut at the lengths of the strings of parts.
RECURSIVE CutLike(_, _)
CutLike(s, parts) ==
    IF parts = <<>> THEN <<>>
    ELSE <<SubSeq(s, 1, Len(parts[1]))>>
             \o CutLike(SubSeq(s, Len(parts[1]) + 1, Len(s)), Tail(parts))

IsLowerWord(w) == w # <<>> /\ \A p \in 1..Len(w) : w[p] \in Range(LowerLetters)

\* C11: where a word of ASCII letters is split does not depend on the case of
\* its letters, and the casing is kept: Tokenize of the word in any casing,
\* all upper case included, is that casing cut where the lower-case word is
\* cut.
C11_SplitsIndependentOfCase ==
    (sspPc = "done" /\ IsLowerWord(word)) =>
        \A mask \in SUBSET (1..Len(word)) :
            SSPTokenize(ssp, Cased(word, mask)) = CutLike(Cased(word, mask), sspResult)

\* A lower-case word has been split in several syllables, and in upper case
\* it is split at the same places.
C11_Witness ==
    /\ sspPc = "done"
    /\ IsLowerWord(word)
    /\ Len(sspResult) >= 3
    /\ Concat(sspResult) = word
    /\ SSPTokenize(ssp, StringToUpper(word)) = CutLike(StringToUpper(word), sspResult)
    /\ StringToUpper(word) # word

\* C14: NewSSPSyllableTokenizer returns a nil tokenizer and
\* ErrLanguageNotSupported for every language but English, Unknown included,
\* and a tokenizer and a nil error for English; Tokenize never returns an
\* error.
C14_LanguageErrorOnlyAtConstruction ==
    /\ sspPc # "new" =>
          IF sspLang = English
          THEN ~IsNil(ssp) /\ sspNewErr = "nil"
          ELSE IsNil(ssp) /\ sspNewErr = "ErrLanguageNotSupported"
    /\ sspPc = "done" => sspErr = "nil"
    /\ sspPc # "done" => sspErr = "unset"

\* The constructor has been called with Unknown and has returned the error
\* and no tokenizer.
C14_Witness ==
    /\ sspPc = "failed"
    /\ sspLang = Unknown
    /\ IsNil(ssp)
    /\ sspNewErr = "ErrLanguageNotSupported"

(***************************************************************************)
(* Claims about SentenceSegmenter.Tokenize (SpecSentence)                  *)
(***************************************************************************)
\* C2: the sentences returned, joined with single spaces, are the
\* whitespace-normalized text: its words joined by single spaces.
C2_JoinedSentencesAreNormalizedText ==
    segPc = "done" => JoinSpace(segResult) = JoinSpace(WhitespaceTokenize(chunk))

\* C3: each sentence is emitted exactly once: a text whose last word ends a
\* sentence returns exactly as many sentences as it has sentence-ending words.
C3_EachSentenceEmittedOnce ==
    (segPc = "done" /\ words # <<>> /\ SegmenterEnds(words[Len(words)]))
        => Len(segResult) = Cardinality({j \in 1..Len(words) : SegmenterEnds(words[j])})

C5_NoSentenceEnd ==
    segPc = "done" =>
        /\ (\A p \in 1..Len(chunk) : IsSpace(chunk[p])) => segResult = <<>>
        /\ (words # <<>> /\ \A j \in 1..Len(words) : ~EndsSentenceAsSpecified(words[j]))
               => segResult = <<JoinSpace(words)>>

\* A text of several words, none ending a sentence, has returned one sentence.
C5_Witness ==
    /\ segPc = "done"
    /\ Len(words) >= 2
    /\ \A j \in 1..Len(words) : ~EndsSentenceAsSpecified(words[j])
    /\ segResult = <<JoinSpace(words)>>

\* C6: a word that ends in an ellipsis ends its sentence: the word after it
\* starts a new sentence.
C6_EllipsisEndsSentence ==
    (segPc \in {"loop", "done"} /\ k >= 2 /\ EndsInEllipsis(words[k - 1]))
        => sentence = words[k]

\* C15: NewSentenceSegmenter with a language other than Unknown and English
\* does not return a segmenter: never one whose punctuation set and list of
\* abbreviations are empty.
C15_UnsupportedLanguageIsRejected ==
    (segPc # "new" /\ segLang \notin {Unknown, English}) =>
        /\ IsNil(seg)
        /\ segPc \notin {"call", "loop", "done"}

(***************************************************************************)
(* Claims about both calls (Spec)                                          *)
(***************************************************************************)
\* The indexes of word that the next step of Tokenize reads.
WordIndexesRead ==
    IF sspPc = "call" /\ ~isShortWord(word) THEN {0}
    ELSE IF sspPc = "scan" /\ i <= Len(word) - 2 THEN {i - 1, i, i + 1}
    ELSE IF sspPc = "scan" THEN {Len(word) - 1}
    ELSE {}

\* The indexes of syllables and of words that the next step reads.
SyllableIndexesRead ==
    IF sspPc = "validate" /\ Len(syllables) > 1 /\ vi < Len(syllables)
    THEN {vi} ELSE {}

WordsIndexesRead == IF segPc = "loop" /\ k < Len(words) THEN {k} ELSE {}

InRange(s, idx) == 0 <= idx /\ idx < Len(s)

\* How far a call is from its return: the phase, and the iterations left in it.
SSPRank ==
    CASE sspPc = "new" -> 4
      [] sspPc = "call" -> 3
      [] sspPc = "scan" -> 2
      [] sspPc = "validate" -> 1
      [] OTHER -> 0

SSPLeft ==
    CASE sspPc = "scan" -> Len(word) - i
      [] sspPc = "validate" -> Len(syllables) - vi
      [] OTHER -> 0

SegRank ==
    CASE segPc = "new" -> 3
      [] segPc = "call" -> 2
      [] segPc = "loop" -> 1
      [] OTHER -> 0

SegLeft == IF segPc = "loop" THEN Len(words) - k ELSE 0

\* The call has a step to take: the guard of one of its actions holds.
SSPCanStep ==
    \/ sspPc \in {"new", "call"}
    \/ sspPc = "scan" /\ (i <= Len(word) - 2 \/ i > Len(word) - 2)
    \/ /\ sspPc = "validate"
       /\ \/ Len(syllables) <= 1
          \/ Len(syllables) > 1 /\ (vi < Len(syllables) \/ vi = Len(syllables))

SegCanStep ==
    \/ segPc \in {"new", "call"}
    \/ segPc = "loop" /\ (k < Len(words) \/ k = Len(words))

\* The guards above are those of the actions.
GuardsAreEnabling ==
    /\ SSPCanStep <=> ENABLED NextSyllable
    /\ SegCanStep <=> ENABLED NextSentence

\* A step brings its call nearer to the return.
StepDecreases ==
    \/ /\ UNCHANGED segVars
       /\ \/ SSPRank' < SSPRank
          \/ SSPRank' = SSPRank /\ SSPLeft' < SSPLeft
    \/ /\ UNCHANGED sspVars
       /\ \/ SegRank' < SegRank
          \/ SegRank' = SegRank /\ SegLeft' < SegLeft

\* C13: for every input, the empty string, pure punctuation and
\* non-alphabetic input included, both Tokenize calls terminate, read no index
\* out of range and return a nil error: every index the next step reads is in
\* range, the iterations left are never negative, a call that has not
\* returned has a step to take, every step brings the call nearer to its
\* return, and the error returned is nil.
C13_TokenizeTerminatesWithoutError ==
    /\ [](/\ \A idx \in WordIndexesRead : InRange(word, idx)
          /\ \A idx \in SyllableIndexesRead : InRange(syllables, idx)
          /\ \A idx \in WordsIndexesRead : InRange(words, idx)
          /\ SSPLeft >= 0 /\ SegLeft >= 0
          /\ sspPc \in {"new", "call", "scan", "validate"} => SSPCanStep
          /\ segPc \in {"new", "call", "loop"} => SegCanStep
          /\ sspPc = "done" => sspErr = "nil"
          /\ segPc = "done" => segErr = "nil")
    /\ [][StepDecreases]_vars

\* A word of punctuation only has gone through the scan and the validation
\* and Tokenize has returned, with a nil error.
C13_Witness ==
    /\ sspPc = "done"
    /\ Len(word) >= 3
    /\ \A p \in 1..Len(word) : IsPunct(word[p])
    /\ vi = Len(syllables)
    /\ sspErr = "nil"

(***************************************************************************)
(* Claims about concurrent calls (SpecConcurrent)                          *)
(***************************************************************************)
\* C16: concurrent Tokenize calls on one tokenizer or one segmenter never
\* write the fields of the instance, which stay as constructed, and under
\* every interleaving each call returns what it returns when run alone.
C16_ConcurrentCallsShareNoState ==
    /\ ssp = NewSSPSyllableTokenizer(English).tokenizer
    /\ seg = NewSentenceSegmenter(English)
    /\ \A c \in DOMAIN sspCalls :
          sspCalls[c].pc = "done" =>
              sspCalls[c].result = SSPTokenize(NewSSPSyllableTokenizer(English).tokenizer,
                                               sspCalls[c].word)
    /\ \A c \in DOMAIN segCalls :
          segCalls[c].pc = "done" =>
              segCalls[c].result = SegTokenize(NewSentenceSegmenter(English),
                                               segCalls[c].chunk)

\* Two calls on the tokenizer with different words are under way at once: one
\* has returned several syllables while the other is in its validation.
C16_Witness ==
    \E c, d \in DOMAIN sspCalls :
        /\ sspCalls[c].word # sspCalls[d].word
        /\ sspCalls[c].pc = "done"
        /\ Len(sspCalls[c].result) >= 2
        /\ sspCalls[d].pc = "validate"
        /\ sspCalls[d].vi >= 1

(***************************************************************************)
(* Claims about the stemmer (SpecStem)                                     *)
(***************************************************************************)
\* The stem of each of these words as the tests give it.
StemsAsTested ==
    /\ StemEnglish(<<"s", "e", "a", "w", "e", "e", "d">>) = <<"s", "e", "a", "w", "e">>
    /\ StemEnglish(<<"a", "p", "p", "l", "e">>) = <<"a", "p", "p", "l">>
    /\ StemEnglish(<<"b", "a", "n", "a", "n", "n", "a">>) = <<"b", "a", "n", "a", "n", "n", "a">>
    /\ StemEnglish(<<"a", "a", "r", "d", "v", "a", "r", "k">>) = <<"a", "a", "r", "d", "v", "a", "r", "k">>
    /\ StemEnglish(<<"a", "a", "r", "d", "v", "a", "r", "k", "s">>) = <<"a", "a", "r", "d", "v", "a", "r", "k">>
    /\ StemEnglish(<<"z", "e", "b", "r", "a">>) = <<"z", "e", "b", "r", "a">>

\* The word without a leading apostrophe and without a trailing "'s'", "'s"
\* or "'".
ApostropheNormalized(w) ==
    LET v == IF w # <<>> /\ w[1] = "'" THEN Tail(w) ELSE w
        n == Len(v)
    IN  IF n >= 3 /\ SubSeq(v, n - 2, n) = <<"'", "s", "'">> THEN SubSeq(v, 1, n - 3)
        ELSE IF n >= 2 /\ SubSeq(v, n - 1, n) = <<"'", "s">> THEN SubSeq(v, 1, n - 2)
        ELSE IF n >= 1 /\ v[n] = "'" THEN SubSeq(v, 1, n - 1)
        ELSE v

\* The words of the irregular-stem exception table.
IrregularWords == {IrregularStems[j][1] : j \in 1..Len(IrregularStems)}

StemPcs ==
    {"idle", "new", "failed", "exceptions", "step1", "step2", "step3", "step4",
     "step5", "step6", "step7", "step8", "step9", "done"}

C18_ExceptionsBypassSteps ==
    /\ [](stemCall.input \in IrregularWords =>
             /\ stemCall.pc \in {"idle", "new", "failed", "exceptions", "done"}
             /\ stemCall.applied = {}
             /\ stemCall.word = stemCall.input
             /\ stemCall.pc = "done" => stemCall.result = IrregularStem(stemCall.input))
    /\ [][(stemCall.pc = "exceptions" /\ stemCall.input \in IrregularWords)
             => stemCall'.pc = "done"]_vars

\* "dying" has been returned as "die", which the rule steps do not give.
C18_Witness ==
    /\ stemCall.pc = "done"
    /\ stemCall.input = <<"d", "y", "i", "n", "g">>
    /\ stemCall.result = <<"d", "i", "e">>
    /\ stemCall.applied = {}

\* The stemmer was put together without the constructor.
IsZeroStemmer == stemNewErr = "unset" /\ stemCall.pc # "new" /\ ~IsNil(stemmer)

\* C19: an unsupported language is rejected by the constructor and nowhere
\* else: the constructor returns no stemmer and ErrLanguageNotSupported for
\* it and a stemmer and no error for English, a call of Stem is made only
\* after a constructor without error and returns a stem, and StemEnglish on
\* a stemmer whose language was never set returns the stem all the same,
\* "seawe" for "seaweed".
C19_LanguageErrorOnlyAtConstruction ==
    /\ (stemCall.pc # "new" /\ stemNewErr # "unset") =>
          /\ stemLang = English => ~IsNil(stemmer) /\ stemNewErr = "nil"
          /\ stemLang = UnsupportedLanguage =>
                 IsNil(stemmer) /\ stemNewErr = "ErrLanguageNotSupported"
          /\ stemNewErr = "ErrLanguageNotSupported" <=> stemCall.pc = "failed"
    /\ (stemCall.pc = "done" /\ IsZeroStemmer) =>
          /\ stemmer.lang = Unknown
          /\ stemCall.result = StemEnglish(stemCall.input)
          /\ stemCall.input = <<"s", "e", "a", "w", "e", "e", "d">> => stemCall.result = <<"s", "e", "a", "w", "e">>
    /\ (stemCall.pc = "done" /\ ~IsZeroStemmer) =>
          stemNewErr = "nil" /\ stemmer.lang = English

\* StemEnglish("seaweed") has returned "seawe" on a stemmer without language.
C19_Witness ==
    /\ stemCall.pc = "done"
    /\ IsZeroStemmer
    /\ stemmer.lang = Unknown
    /\ stemCall.input = <<"s", "e", "a", "w", "e", "e", "d">>
    /\ stemCall.result = <<"s", "e", "a", "w", "e">>

(***************************************************************************)
(* Claims about the Text (SpecText)                                        *)
(***************************************************************************)
\* The field an accessor caches its result in.
CacheOf ==
    [Tokens |-> "tokens", Stems |-> "stems", TypeCount |-> "typecount",
     Words |-> "words", Sentences |-> "sentences", Syllables |-> "syllables"]

\* The accessor a was called, by the caller or by an accessor that depends
\* on it.
Called(a) == textFirst[a].called

\* A cache is nil as long as its accessor was not called.
NilUntilCalled ==
    textPc = "ready" => \A a \in CachedAccessors : ~Called(a) => IsNil(txt[CacheOf[a]])

\* After a call the cache holds the value the call returned.
HoldsValueReturned ==
    textRet.accessor \in CachedAccessors =>
        /\ txt[CacheOf[textRet.accessor]] = textRet.value
        /\ Deref(textHeap, txt[CacheOf[textRet.accessor]]) = textRet.content

\* Every call, of the caller or of an accessor, returned what the first call
\* of its accessor returned.
ReturnsFirstValue ==
    /\ textSame
    /\ textRet.accessor \in CachedAccessors => textRet = textFirst[textRet.accessor].first

\* A step leaves a cache as it is, once its accessor was called.
CachesKept ==
    textPc = "ready" =>
        \A a \in CachedAccessors :
            Called(a) =>
                /\ txt'[CacheOf[a]] = txt[CacheOf[a]]
                /\ Deref(textHeap', txt'[CacheOf[a]]) = Deref(textHeap, txt[CacheOf[a]])

\* C20: each cache of a Text (tokens, stems, typecount, words, sentences,
\* syllables) is nil until its accessor or an accessor that depends on it is
\* first called; after a call the cache holds exactly the value returned; and
\* under any later sequence of accessor calls the cache is never changed and
\* every call returns the value the first call returned.
C20_CachesAreWriteOnce ==
    /\ [](NilUntilCalled /\ HoldsValueReturned /\ ReturnsFirstValue)
    /\ [][CachesKept]_vars

\* Every accessor of the text of the tests was called, Tokens before Stems and
\* Stems once more at the end: the stems are the stemmed copy, the tokens are
\* still the tokens.
C20_Witness ==
    /\ textPc = "ready"
    /\ \A a \in CachedAccessors : Called(a)
    /\ textRet.accessor = "Stems"
    /\ textFirst["Tokens"].first.content = Deref(textHeap, txt.tokens)
    /\ textRet.content =
           [elems |-> << <<"a", "p", "p", "l">>,
                         <<"b", "a", "n", "a", "n", "n", "a">>,
                         <<"a", "a", "r", "d", "v", "a", "r", "k">>,
                         <<"a", "a", "r", "d", "v", "a", "r", "k">>,
                         <<"z", "e", "b", "r", "a">> >>]
    /\ Deref(textHeap, txt.tokens) =
           [elems |-> << <<"a", "p", "p", "l", "e">>,
                         <<"b", "a", "n", "a", "n", "n", "a">>,
                         <<"a", "a", "r", "d", "v", "a", "r", "k">>,
                         <<"a", "a", "r", "d", "v", "a", "r", "k", "s">>,
                         <<"z", "e", "b", "r", "a">> >>]
    /\ Deref(textHeap, txt.typecount).elems[<<"a", "a", "r", "d", "v", "a", "r", "k">>] = 2

\* C22: once Stems() was computed, the stems are as many as the tokens,
\* stem i is the stemmer's result for token i, and the cached tokens are
\* still what the tokenizer returned, in a list that is not the list of the
\* stems.
C22_StemsAreStemmedCopy ==
    (textPc = "ready" /\ Called("Stems")) =>
        LET toks == Elems(textHeap, txt.tokens)
            stems == Elems(textHeap, txt.stems)
            r == RegexTokenize(txt.tokenizer, txt.text)
        IN  /\ Called("Tokens")
            /\ IsNil(txt.stems) <=> r.err # "nil"
            /\ IsNil(txt.stems) <=> IsNil(txt.tokens)
            /\ Len(stems) = Len(toks)
            /\ \A j \in 1..Len(toks) : stems[j] = StemEnglish(toks[j])
            /\ ~IsNil(txt.tokens) =>
                  /\ toks = r.tokens
                  /\ txt.stems.array # txt.tokens.array
                  /\ textFirst["Tokens"].first.content = [elems |-> toks]

\* Stems() of the text of the tests, then Tokens(): "apple" is still a token,
\* "appl" is its stem.
C22_Witness ==
    /\ textPc = "ready"
    /\ textRet.accessor = "Tokens"
    /\ Called("Stems")
    /\ ~Called("TypeCount")
    /\ textRet.err = "nil"
    /\ Len(textRet.content.elems) = 5
    /\ textRet.content.elems[1] = <<"a", "p", "p", "l", "e">>
    /\ Elems(textHeap, txt.stems)[1] = <<"a", "p", "p", "l">>
    /\ Elems(textHeap, txt.stems)[4] = Elems(textHeap, txt.stems)[3]
    /\ textRet.content.elems[4] # textRet.content.elems[3]

(***************************************************************************)
(* Claims about the caller of a Text (SpecCaller)                          *)
(***************************************************************************)
\* C30: the list Tokens() returned is the caller's own: after the caller
\* overwrites an element of it (myTokens[0] = myTokens[1]) the tokens cache
\* still holds what Tokens() first returned, and a later call of Tokens()
\* returns that value again.
C30_ReturnedTokensAreCallersOwn ==
    (textPc = "ready" /\ textFirst["Tokens"].called) =>
        /\ Deref(textHeap, txt.tokens) = textFirst["Tokens"].first.content
        /\ textSame

(***************************************************************************)
(* Claims about the scan (SpecSyllable)                                    *)
(***************************************************************************)
\* The ranks of the table: vowels 3, l m n r w 2, z v s f 1, all others 0.
SonorityRank(r) ==
    LET l == ToLower(r)
    IN  IF l \in {"a", "e", "i", "o", "u", "y"} THEN 3
        ELSE IF l \in {"l", "m", "n", "r", "w"} THEN 2
        ELSE IF l \in {"z", "v", "s", "f"} THEN 1
        ELSE 0

\* The step is an iteration of the trigram loop, at the position i.
IsScanIteration == sspPc = "scan" /\ i' = i + 1

\* C23: an iteration of the scan at an interior position whose code point is
\* not punctuation, a digit or whitespace closes the syllable after the code
\* point iff rank(prev) >= rank(cur) = rank(next), closes it before the code
\* point iff rank(prev) > rank(cur) < rank(next), and otherwise only
\* accumulates the code point; the two cases exclude each other.
C23_ScanBoundaries ==
    [][(IsScanIteration /\ ~(IsPunct(At(word, i)) \/ IsNumber(At(word, i))
                              \/ IsSpace(At(word, i)))) =>
          LET cur == At(word, i)
              prev == SonorityRank(At(word, i - 1))
              rank == SonorityRank(cur)
              next == SonorityRank(At(word, i + 1))
              after == prev >= rank /\ rank = next
              before == prev > rank /\ rank < next
          IN  /\ Len(word) >= 3 /\ 1 <= i /\ i <= Len(word) - 2
              /\ ~(after /\ before)
              /\ after <=> (/\ syllables' = Append(syllables, Append(syllable, cur))
                            /\ syllable' = <<>>)
              /\ before <=> (/\ syllables' = Append(syllables, syllable)
                             /\ syllable' = <<cur>>)
              /\ ~(after \/ before) <=> (/\ syllables' = syllables
                                         /\ syllable' = Append(syllable, cur))]_vars

\* "annta" after the iteration at "t": the boundary after the first "n"
\* (3 >= 2 = 2) closed "an", the second "n" was accumulated, and the boundary
\* before "t" (2 > 0 < 3) closed "n".
C23_Witness ==
    /\ sspPc = "scan"
    /\ word = <<"a", "n", "n", "t", "a">>
    /\ i = 4
    /\ syllables = << <<"a", "n">>, <<"n">> >>
    /\ syllable = <<"t">>

(***************************************************************************)
(* Claims about the separators (SpecSyllable)                              *)
(***************************************************************************)
\* The code point at the position p of w separates: punctuation or white
\* space at an interior position.
IsSeparatorAt(w, p) == 1 < p /\ p < Len(w) /\ (IsPunct(w[p]) \/ IsSpace(w[p]))

\* The elements are stretches of w from the position from on, in order and
\* without overlap, and none of them reaches over a separator.
RECURSIVE LieBetweenSeparators(_, _, _)
LieBetweenSeparators(elements, w, from) ==
    IF elements = <<>> THEN TRUE
    ELSE LET e == Head(elements)
         IN  \E s \in from..(Len(w) - Len(e) + 1) :
                /\ Len(e) >= 1
                /\ SubSeq(w, s, s + Len(e) - 1) = e
                /\ \A q \in s..(s + Len(e) - 1) : ~IsSeparatorAt(w, q)
                /\ LieBetweenSeparators(Tail(elements), w, s + Len(e))

\* C26: no element of the result of Tokenize has code points from both sides
\* of a punctuation or white space code point at an interior position: the
\* elements are stretches of the word, in order, that hold no such code point.
C26_NoElementCrossesSeparator ==
    (sspPc = "done" /\ Len(word) >= 3)
        => LieBetweenSeparators(sspResult, word, 1)

\* "n-t a": the vowel-less "n" and "t" on the two sides of "-" stay apart,
\* and "t" is not merged with the "a" beyond the space.
C26_Witness ==
    /\ sspPc = "done"
    /\ word = <<"n", "-", "t", " ", "a">>
    /\ sspResult = << <<"n">>, <<"t">>, <<"a">> >>

(***************************************************************************)
(* Claims about the sentences returned (SpecSentence)                      *)
(***************************************************************************)
\* C27: every sentence returned is non-empty, is its words joined by single
\* spaces (so it has neither a leading nor a trailing space, and no other
\* white space), and none of its words but the last ends a sentence.
C27_SentencesAreWellFormed ==
    segPc = "done" =>
        \A j \in 1..Len(segResult) :
            LET s == segResult[j]
                ws == WhitespaceTokenize(s)
            IN  /\ s # <<>>
                /\ ~IsSpace(s[1]) /\ ~IsSpace(s[Len(s)])
                /\ s = JoinSpace(ws)
                /\ \A q \in 1..(Len(ws) - 1) : ~SegmenterEnds(ws[q])

\* The text of the titles, with a line break and a tab among its white
\* space: the first sentence runs over the abbreviations and the initialism
\* to "mr.", seven words joined by single spaces.
C27_Witness ==
    /\ segPc = "done"
    /\ seg.lang = English
    /\ \E p \in 1..Len(chunk) : chunk[p] = "\t"
    /\ Len(segResult) >= 1
    /\ Len(WhitespaceTokenize(segResult[1])) = 7
    /\ Len(segResult[1]) = 32
    /\ SegmenterEnds(words[Len(words)])
    /\ \E q \in 1..(Len(words) - 1) : words[q] \in Abbreviations

(***************************************************************************)
(* TokenList                                                               *)
(*                                                                         *)
(* A slice is nil or the array it points into with its length; the         *)
(* capacity is the length of the array.  A *TokenList is the struct with   *)
(* the slice tokens.  The caller imports one of the two packages tokenlist *)
(* and pkg/tokenlist, which differ in NewCopy.                             *)
(***************************************************************************)
MaxListLen == 2

ListTokens == {"a", "b"}

TokenListPackages == {"tokenlist", "pkg/tokenlist"}

\* make([]token.Token, size, capacity): an array of zero tokens.
Make(heap, place, size, capacity) ==
    [slice |-> [array |-> place, len |-> size],
     heap |-> [p \in DOMAIN heap \cup {place} |->
                  IF p = place THEN [j \in 1..capacity |-> ""] ELSE heap[p]]]

\* The elements of a slice.
SliceElems(heap, slice) ==
    IF IsNil(slice) THEN <<>> ELSE SubSeq(heap[slice.array], 1, slice.len)

\* append(slice, elems...) within the capacity of the slice.
AppendInPlace(heap, slice, elems) ==
    [slice |-> [slice EXCEPT !.len = @ + Len(elems)],
     heap |-> [heap EXCEPT ![slice.array] =
                 [j \in 1..Len(@) |->
                     IF j > slice.len /\ j <= slice.len + Len(elems)
                     THEN elems[j - slice.len] ELSE @[j]]]]

\* copy(dst, src): the first min(len(dst), len(src)) elements.
Copy(heap, dst, src) ==
    LET n == IF dst.len < Len(src) THEN dst.len ELSE Len(src)
    IN  [heap EXCEPT ![dst.array] = [j \in 1..Len(@) |-> IF j <= n THEN src[j] ELSE @[j]]]

\* The zero value TokenList{}: its tokens are nil.
ZeroTokenList == [tokens |-> Nil]

\* New(tokens).
TokenListNew(heap, place, tokens) ==
    LET m == Make(heap, place, 0, Len(tokens))
        a == AppendInPlace(m.heap, m.slice, tokens)
    IN  [list |-> [tokens |-> a.slice], heap |-> a.heap]

\* NewCopy of pkg/tokenlist: copy into the slice of length 0.
pkgNewCopy(heap, place, other) ==
    LET m == Make(heap, place, 0, Len(SliceElems(heap, other.tokens)))
    IN  [list |-> [tokens |-> m.slice],
         heap |-> Copy(m.heap, m.slice, SliceElems(heap, other.tokens))]

\* NewCopy of tokenlist: append to the slice of length 0.
NewCopy(heap, place, other) ==
    LET m == Make(heap, place, 0, Len(SliceElems(heap, other.tokens)))
        a == AppendInPlace(m.heap, m.slice, SliceElems(heap, other.tokens))
    IN  [list |-> [tokens |-> a.slice], heap |-> a.heap]

\* TokenList.Strings.
Strings(heap, t) == SliceElems(heap, t.tokens)

\* An index expression on a slice: Go panics outside [0, len).
IndexInRange(slice, idx) == 0 <= idx /\ idx < slice.len

\* TokenList.Replace(idx, replacement): idx counts from 0.
Replace(heap, t, idx, replacement) ==
    IF IsNil(t.tokens) THEN [heap |-> heap, err |-> "ErrInvalidIndex"]
    ELSE IF t.tokens.len <= idx THEN [heap |-> heap, err |-> "ErrInvalidIndex"]
    ELSE IF ~IndexInRange(t.tokens, idx) THEN [heap |-> heap, err |-> "panic"]
    ELSE [heap |-> [heap EXCEPT ![t.tokens.array][idx + 1] = replacement],
          err |-> "nil"]

\* The caller holds l, the zero TokenList or New(tokens), and no copy yet.
InitTokenList ==
    /\ SSPIdle
    /\ SegIdle
    /\ CallsIdle
    /\ StemIdle
    /\ TextIdle
    /\ VectorizeIdle
    /\ RaceIdle
    /\ tlCopy = Nil
    /\ tlLast = [op |-> "none"]
    /\ tlPc = "running"
    /\ tlPkg \in TokenListPackages
    /\ \/ tlL = ZeroTokenList /\ tlHeap = <<>>
       \/ \E tokens \in SeqsUpTo(ListTokens, MaxListLen) :
             LET n == TokenListNew(<<>>, "New", tokens)
             IN  tlL = n.list /\ tlHeap = n.heap

\* tlCopy = NewCopy(tlL).
CallNewCopy ==
    /\ UNCHANGED <<sspVars, segVars, callVars, stemVars, textVars, vecVars, raceVars>>
    /\ tlPc = "running"
    /\ IsNil(tlCopy)
    /\ LET c == IF tlPkg = "pkg/tokenlist"
                THEN pkgNewCopy(tlHeap, "NewCopy", tlL)
                ELSE NewCopy(tlHeap, "NewCopy", tlL)
       IN  /\ tlCopy' = c.list
           /\ tlHeap' = c.heap
           /\ tlLast' = [op |-> "NewCopy"]
    /\ UNCHANGED <<tlPkg, tlL, tlPc>>

\* target.Replace(idx, tok) on l or on the copy; a panic ends the caller.
CallReplace(target, idx, tok) ==
    /\ UNCHANGED <<sspVars, segVars, callVars, stemVars, textVars, vecVars, raceVars>>
    /\ tlPc = "running"
    /\ target = "copy" => ~IsNil(tlCopy)
    /\ LET t == IF target = "copy" THEN tlCopy ELSE tlL
           r == Replace(tlHeap, t, idx, tok)
       IN  /\ tlHeap' = r.heap
           /\ tlLast' = [op |-> "Replace", target |-> target, idx |-> idx,
                         tok |-> tok, err |-> r.err,
                         before |-> Strings(tlHeap, t),
                         lBefore |-> Strings(tlHeap, tlL)]
           /\ tlPc' = IF r.err = "panic" THEN "panicked" ELSE "running"
    /\ UNCHANGED <<tlPkg, tlL, tlCopy>>

NextTokenList ==
    \/ CallNewCopy
    \/ \E target \in {"l", "copy"}, idx \in -1..MaxListLen, tok \in ListTokens :
          CallReplace(target, idx, tok)

SpecTokenList == InitTokenList /\ [][NextTokenList]_vars

(***************************************************************************)
(* C29                                                                     *)
(***************************************************************************)
\* The list Replace was last called on.
Replaced == IF tlLast.target = "copy" THEN tlCopy ELSE tlL

\* C29: Replace(idx, tok) returns ErrInvalidIndex and leaves the list
\* unchanged for every index outside [0, Len()), negative indexes and the
\* indexes of an empty or nil list included; for an index in the range it
\* replaces that element only, keeps the length and returns nil.
C29_ReplaceChecksIndex ==
    tlLast.op = "Replace" =>
        LET before == tlLast.before
            after == Strings(tlHeap, Replaced)
        IN  IF 0 <= tlLast.idx /\ tlLast.idx < Len(before)
            THEN /\ tlLast.err = "nil"
                 /\ after = [before EXCEPT ![tlLast.idx + 1] = tlLast.tok]
            ELSE /\ tlLast.err = "ErrInvalidIndex"
                 /\ after = before

(***************************************************************************)
(* C25                                                                     *)
(***************************************************************************)
\* C25: NewCopy(l) holds the tokens of l in their order (NewCopy(l).Strings()
\* equals l.Strings()) in storage of its own: replacing an element of the
\* copy does not change l.
C25_NewCopyIsSeparateEqualList ==
    /\ tlLast.op = "NewCopy" =>
          /\ Strings(tlHeap, tlCopy) = Strings(tlHeap, tlL)
          /\ ~IsNil(tlL.tokens) => tlCopy.tokens.array # tlL.tokens.array
    /\ (tlLast.op = "Replace" /\ tlLast.target = "copy") =>
          Strings(tlHeap, tlL) = tlLast.lBefore

(***************************************************************************)
(* CountVectorizer                                                         *)
(*                                                                         *)
(* A vocabulary is nil or the slice of its words; a vector is nil or the   *)
(* slice of its elements.                                                  *)
(***************************************************************************)
MaxVecPieces == 2

MaxVocab == 2

ErrVocabularyNotSet == "ErrVocabularyNotSet"

ErrMethodNotSupported == "ErrMethodNotSupported"

VectorizeUnknown == 0

VectorizeOneHot == 1

VectorizeFrequency == 2

\* NewTypeCounter with the options text.New and NewCountVectorizer give it.
NewTypeCounter(lang, tokenizer, st) ==
    [lang |-> IF lang = Unknown THEN English ELSE lang,
     tokenizer |-> tokenizer,
     stemmer |-> st]

\* TypeCounter.TypeCount: the count of each stem of the tokens of the chunk.
TypeCount(c, str) ==
    LET r == RegexTokenize(c.tokenizer, str)
    IN  IF r.err # "nil" THEN [types |-> Nil, err |-> r.err]
        ELSE [types |-> CountTypes([j \in 1..Len(r.tokens) |-> StemEnglish(r.tokens[j])]),
              err |-> "nil"]

\* NewCountVectorizer with the options text.New gives it; the method is
\* left at its default.
NewCountVectorizer(vocab, lang, tokenizer, st, typeCounter) ==
    [vocab |-> vocab,
     lang |-> IF lang = Unknown THEN English ELSE lang,
     tokenizer |-> tokenizer,
     stemmer |-> st,
     typeCounter |-> typeCounter,
     method |-> VectorizeOneHot]

\* len(vocab) and range vocab: nothing for the nil slice.
VocabWords(vocab) == IF IsNil(vocab) THEN <<>> ELSE vocab.elems

\* CountVectorizer.VectorizeFrequency(chunk, vocab).
CountVectorizerVectorizeFrequency(v, str, vocab) ==
    LET c == TypeCount(v.typeCounter, str)
        ws == VocabWords(vocab)
    IN  IF c.err # "nil" THEN [vector |-> Nil, err |-> c.err]
        ELSE [vector |->
                 [elems |-> [j \in 1..Len(ws) |->
                                IF StemEnglish(ws[j]) \in DOMAIN c.types
                                THEN c.types[StemEnglish(ws[j])] ELSE 0]],
              err |-> "nil"]

\* VectorizeOneHot returning the frequencies.
CountVectorizerVectorizeOneHotAsCounted(v, str, vocab) ==
    CountVectorizerVectorizeFrequency(v, str, vocab)

\* CountVectorizer.VectorizeOneHot(chunk, vocab).
CountVectorizerVectorizeOneHot(v, str, vocab) ==
    LET f == CountVectorizerVectorizeFrequency(v, str, vocab)
    IN  IF f.err # "nil" THEN [vector |-> Nil, err |-> f.err]
        ELSE [vector |->
                 [elems |-> [j \in 1..Len(f.vector.elems) |->
                                IF f.vector.elems[j] # 0 THEN 1 ELSE f.vector.elems[j]]],
              err |-> "nil"]

\* CountVectorizer.Vectorize(chunk): with the vocabulary and the method of
\* the vectorizer.
CountVectorizerVectorize(v, str) ==
    IF IsNil(v.vocab) THEN [vector |-> Nil, err |-> ErrVocabularyNotSet]
    ELSE IF v.method = VectorizeOneHot THEN CountVectorizerVectorizeOneHot(v, str, v.vocab)
    ELSE IF v.method = VectorizeFrequency THEN CountVectorizerVectorizeFrequency(v, str, v.vocab)
    ELSE [vector |-> Nil, err |-> ErrMethodNotSupported]

\* text.New(t, WithVocabulary(vocab), WithLanguage(lang),
\* WithTokenizer(NewRegexTokenizer(regex))); without WithVocabulary the
\* vocabulary is nil.
NewTextWithVocabulary(t, vocab, lang, regex) ==
    LET r == NewText(t, lang, regex)
        tc == NewTypeCounter(r.text.lang, r.text.tokenizer, r.text.stemmer)
    IN  IF r.err # "nil" THEN r
        ELSE [text |-> [text |-> t,
                        vocab |-> vocab,
                        lang |-> r.text.lang,
                        typeCounter |-> tc,
                        countVectorizer |->
                            NewCountVectorizer(vocab, r.text.lang, r.text.tokenizer,
                                               r.text.stemmer, tc)],
              err |-> "nil"]

\* Text.VectorizeFrequency.
TextVectorizeFrequency(t) ==
    CountVectorizerVectorizeFrequency(t.countVectorizer, t.text, t.vocab)

\* Text.VectorizeOneHot.
TextVectorizeOneHot(t) ==
    CountVectorizerVectorizeOneHot(t.countVectorizer, t.text, t.vocab)

\* Words with the stems an, an and Tan, each with what follows it in a text.
VecPieces == { <<"a", "n", " ">>, <<"a", "n", "s", " ">>, <<"T", "a", "n", "s", ".">> }

VecTexts == {Concat(ps) : ps \in SeqsUpTo(VecPieces, MaxVecPieces)}

VocabularyWords == { <<"a", "n">>, <<"a", "n", "s">>, <<"T", "a", "n", "s">> }

\* No WithVocabulary, or WithVocabulary(words).
Vocabularies == {Nil} \cup {[elems |-> ws] : ws \in SeqsUpTo(VocabularyWords, MaxVocab)}

InitVectorize ==
    /\ SSPIdle
    /\ SegIdle
    /\ CallsIdle
    /\ StemIdle
    /\ TextIdle
    /\ TokenListIdle
    /\ RaceIdle
    /\ vecText = Nil
    /\ vecNewErr = "unset"
    /\ vecRet = [method |-> "none"]
    /\ vecPc = "new"
    /\ \E t \in VecTexts, vocab \in Vocabularies, lang \in Languages,
          regex \in {"", InvalidRegex} :
          vecNew = [t |-> t, vocab |-> vocab, lang |-> lang, regex |-> regex]

\* text.New: the caller goes on with a Text only.
VectorizeNew ==
    /\ UNCHANGED <<sspVars, segVars, callVars, stemVars, textVars, tlVars, raceVars>>
    /\ vecPc = "new"
    /\ LET r == NewTextWithVocabulary(vecNew.t, vecNew.vocab, vecNew.lang, vecNew.regex)
       IN  /\ vecText' = r.text
           /\ vecNewErr' = r.err
           /\ vecPc' = IF r.err = "nil" THEN "ready" ELSE "failed"
    /\ UNCHANGED <<vecNew, vecRet>>

\* A call of a Vectorize method that returns r.
VectorizeReturns(method, r) ==
    /\ UNCHANGED <<sspVars, segVars, callVars, stemVars, textVars, tlVars, raceVars>>
    /\ vecPc = "ready"
    /\ vecRet' = [method |-> method, vector |-> r.vector, err |-> r.err]
    /\ UNCHANGED <<vecText, vecNew, vecNewErr, vecPc>>

CallVectorizeFrequency ==
    VectorizeReturns("Text.VectorizeFrequency", TextVectorizeFrequency(vecText))

CallVectorizeOneHot ==
    VectorizeReturns("Text.VectorizeOneHot", TextVectorizeOneHot(vecText))

\* myText.CountVectorizer().Vectorize(t).
CallVectorize ==
    VectorizeReturns("CountVectorizer.Vectorize",
                     CountVectorizerVectorize(vecText.countVectorizer, vecText.text))

NextVectorize ==
    \/ VectorizeNew
    \/ CallVectorizeFrequency
    \/ CallVectorizeOneHot
    \/ CallVectorize

SpecVectorize == InitVectorize /\ [][NextVectorize]_vars

(***************************************************************************)
(* C21                                                                     *)
(***************************************************************************)
\* C21: Text.VectorizeFrequency and Text.VectorizeOneHot return an error,
\* and no vector, on a Text created without WithVocabulary.
C21_NoVocabularyIsAnError ==
    (/\ vecRet.method \in {"Text.VectorizeFrequency", "Text.VectorizeOneHot"}
     /\ IsNil(vecText.vocab)) =>
        vecRet.err # "nil" /\ IsNil(vecRet.vector)

(***************************************************************************)
(* C24                                                                     *)
(***************************************************************************)
\* The tokens of the chunk whose stem is the stem of the word.
TokensWithStemOf(str, w) ==
    LET tokens == runsFrom(str, <<>>, <<>>)
    IN  {j \in 1..Len(tokens) : StemEnglish(tokens[j]) = StemEnglish(w)}

\* C24: the vectors of VectorizeFrequency and VectorizeOneHot have the
\* length of the vocabulary; element i of the frequency vector is the number
\* of tokens of the chunk with the stem of word i of the vocabulary, and
\* element i of the one-hot vector is 1 if that number is not zero and 0 if
\* it is.
C24_VectorsCountStems ==
    (/\ vecRet.method \in {"Text.VectorizeFrequency", "Text.VectorizeOneHot"}
     /\ vecRet.err = "nil") =>
        LET ws == VocabWords(vecText.vocab)
            vector == vecRet.vector.elems
            counted(j) == Cardinality(TokensWithStemOf(vecText.text, ws[j]))
        IN  /\ Len(vector) = Len(ws)
            /\ \A j \in 1..Len(ws) :
                  IF vecRet.method = "Text.VectorizeFrequency"
                  THEN vector[j] = counted(j)
                  ELSE vector[j] = IF counted(j) # 0 THEN 1 ELSE 0

\* The text "an ans " with the vocabulary [ans, Tans]: the frequencies are
\* [2, 0], the one-hot vector is [1, 0].
C24_Witness ==
    /\ vecText # Nil
    /\ vecRet.method = "Text.VectorizeOneHot"
    /\ vecRet.err = "nil"
    /\ vecText.text = <<"a", "n", " ", "a", "n", "s", " ">>
    /\ vecText.vocab = [elems |-> << <<"a", "n", "s">>, <<"T", "a", "n", "s">> >>]
    /\ vecRet.vector = [elems |-> <<1, 0>>]
    /\ TextVectorizeFrequency(vecText).vector = [elems |-> <<2, 0>>]

(***************************************************************************)
(* Words and Sentences called by several threads                           *)
(*                                                                         *)
(* The threads share one Text and call the same accessor on it.  Nothing   *)
(* orders their reads and writes of the field t.words (t.sentences): a     *)
(* step of a thread is one evaluation that reads the field or one          *)
(* assignment that writes it, and the steps of the threads interleave.     *)
(* The field is a slice, nil or an array with a length; append writes in   *)
(* place while the capacity lasts and moves to an array of twice the       *)
(* capacity when it does not.                                              *)
(***************************************************************************)
MaxRaceWords == 2

\* What one call of the accessor appends: the words of the text, or its
\* sentences (the segmenter of a Text is an English one).
Appended(accessor, text) ==
    IF accessor = "Words" THEN WhitespaceTokenize(text)
    ELSE SegTokenize(NewSentenceSegmenter(English), text)

\* The locals of a call that has not begun.
NewRaceCall == [pc |-> "check", items |-> <<>>, j |-> 0, appended |-> Nil, ret |-> Nil]

\* append(slice, tok), evaluated by the thread c in its iteration j.
AppendOne(heap, slice, tok, c, j) ==
    LET old == SliceElems(heap, slice)
        capacity == IF IsNil(slice) THEN 0 ELSE Len(heap[slice.array])
    IN  IF ~IsNil(slice) /\ slice.len < capacity
        THEN [slice |-> [slice EXCEPT !.len = @ + 1],
              heap |-> [heap EXCEPT ![slice.array][slice.len + 1] = tok]]
        ELSE LET place == <<c, j>>
                 grown == IF capacity = 0 THEN 1 ELSE 2 * capacity
             IN  [slice |-> [array |-> place, len |-> Len(old) + 1],
                  heap |-> [p \in DOMAIN heap \cup {place} |->
                               IF p = place
                               THEN [n \in 1..grown |->
                                        IF n <= Len(old) THEN old[n]
                                        ELSE IF n = Len(old) + 1 THEN tok ELSE ""]
                               ELSE heap[p]]]

RaceWords == { <<"a", ".">>, <<"b">> }

RaceTexts == {JoinSpace(ws) : ws \in SeqsUpTo(RaceWords, MaxRaceWords)}

\* A Text whose cache is nil, and the threads about to call its accessor.
InitRace ==
    /\ SSPIdle
    /\ SegIdle
    /\ CallsIdle
    /\ StemIdle
    /\ TextIdle
    /\ TokenListIdle
    /\ VectorizeIdle
    /\ raceCache = Nil
    /\ raceHeap = <<>>
    /\ \E accessor \in {"Words", "Sentences"}, text \in RaceTexts :
          raceText = [accessor |-> accessor, text |-> text]
    /\ \E n \in 1..MaxCallers : raceCalls = [c \in 1..n |-> NewRaceCall]

\* if t.words == nil: the thread tokenizes the text when it reads nil.
RaceCheck(c) ==
    /\ UNCHANGED <<sspVars, segVars, callVars, stemVars, textVars, tlVars, vecVars>>
    /\ raceCalls[c].pc = "check"
    /\ LET items == Appended(raceText.accessor, raceText.text)
       IN  raceCalls' = [raceCalls EXCEPT ![c] =
              IF ~IsNil(raceCache) THEN [@ EXCEPT !.pc = "return"]
              ELSE [@ EXCEPT !.items = items,
                             !.pc = IF items = <<>> THEN "return" ELSE "append"]]
    /\ UNCHANGED <<raceText, raceCache, raceHeap>>

\* append(t.words, token.New(word)): the right-hand side of the assignment.
RaceAppend(c) ==
    /\ UNCHANGED <<sspVars, segVars, callVars, stemVars, textVars, tlVars, vecVars>>
    /\ raceCalls[c].pc = "append"
    /\ LET call == raceCalls[c]
           a == AppendOne(raceHeap, raceCache, call.items[call.j + 1], c, call.j + 1)
       IN  /\ raceHeap' = a.heap
           /\ raceCalls' = [raceCalls EXCEPT ![c] = [@ EXCEPT !.appended = a.slice,
                                                             !.pc = "store"]]
    /\ UNCHANGED <<raceText, raceCache>>

\* t.words = the slice append returned; then the next word, if any.
RaceStore(c) ==
    /\ UNCHANGED <<sspVars, segVars, callVars, stemVars, textVars, tlVars, vecVars>>
    /\ raceCalls[c].pc = "store"
    /\ raceCache' = raceCalls[c].appended
    /\ LET call == raceCalls[c]
       IN  raceCalls' = [raceCalls EXCEPT ![c] =
              [call EXCEPT !.j = call.j + 1,
                           !.appended = Nil,
                           !.pc = IF call.j + 1 < Len(call.items) THEN "append"
                                  ELSE "return"]]
    /\ UNCHANGED <<raceText, raceHeap>>

\* return t.words.
RaceReturn(c) ==
    /\ UNCHANGED <<sspVars, segVars, callVars, stemVars, textVars, tlVars, vecVars>>
    /\ raceCalls[c].pc = "return"
    /\ raceCalls' = [raceCalls EXCEPT ![c] = [@ EXCEPT !.ret = raceCache, !.pc = "done"]]
    /\ UNCHANGED <<raceText, raceCache, raceHeap>>

NextRace ==
    \E c \in 1..MaxCallers :
        /\ c \in DOMAIN raceCalls
        /\ RaceCheck(c) \/ RaceAppend(c) \/ RaceStore(c) \/ RaceReturn(c)

SpecRace == InitRace /\ [][NextRace]_vars

(***************************************************************************)
(* C28                                                                     *)
(***************************************************************************)
\* Every thread has returned.
AllReturned == \A c \in DOMAIN raceCalls : raceCalls[c].pc = "done"

\* C28: when the threads that called Words() (Sentences()) at once on a Text
\* with a nil cache have all returned, the cache holds what one call alone
\* appends: each word (sentence) once, in order.
C28_ConcurrentCallsFillCacheOnce ==
    (raceText.accessor # "none" /\ AllReturned) =>
        SliceElems(raceHeap, raceCache) = Appended(raceText.accessor, raceText.text)

====
